---- MODULE Spec2Model ----
(***************************************************************************)
(* Owlet (sal-jim/Owlet): credential resolver, posting client, legacy CLI, *)
(* news aggregator and the local web server, modelled as state machines.   *)
(*                                                                         *)
(* Strings are sequences of chunks (a chunk is a TLA+ string holding one   *)
(* or more characters); concatenating the chunks gives the JavaScript      *)
(* string.  Whitespace is always written as the one-character chunk " ".   *)
(* null / undefined is the value Null, which no string equals.             *)
(***************************************************************************)
EXTENDS Integers, Sequences, FiniteSets, TLC

VARIABLES
    cr_pc, cr_in, cr_out,              \* one resolveCredentials call: position, arguments, result
    tw_pc, tw_in, tw_client, tw_out,   \* one TwitterClient: position, inputs, fields, result of the call
    cli_pc, cli_in, cli_creds, cli_out, cli_exit,  \* one run of a twitter-cli command
    vr_pc, vr_in, vr_dir, vr_i, vr_out,  \* one resolvePackageVersion call, directory by directory
    xt_pc, xt_in, xt_out,              \* extractTweetId applied to a target, then to its own result
    ft_bundled, ft_file, ft_env,       \* runtime features: features.json, the cache file, the environment JSON
    ft_cached, ft_last, ft_memo,       \* cachedOverrides, the last call and its result, what the last reading load saw
    nw_pc, nw_in, nw_i, nw_allItems, nw_seenHeadlines, nw_log, nw_out,  \* one getNews call
    sv_pc, sv_req, sv_env, sv_calls, sv_responses, sv_fatal,  \* one request to the web server
    ed_pc, ed_in, ed_calls, ed_settled, ed_out,  \* one buildEdition call, promise by promise
    net                                \* the HTTP requests sent to X so far, in order

cr_vars == <<cr_pc, cr_in, cr_out>>

tw_vars == <<tw_pc, tw_in, tw_client, tw_out>>

vr_vars == <<vr_pc, vr_in, vr_dir, vr_i, vr_out>>

xt_vars == <<xt_pc, xt_in, xt_out>>

ft_vars == <<ft_bundled, ft_file, ft_env, ft_cached, ft_last, ft_memo>>

cli_vars == <<cli_pc, cli_in, cli_creds, cli_out, cli_exit, vr_vars, xt_vars, ft_vars>>

nw_vars == <<nw_pc, nw_in, nw_i, nw_allItems, nw_seenHeadlines, nw_log, nw_out>>

ed_vars == <<ed_pc, ed_in, ed_calls, ed_settled, ed_out>>

sv_vars == <<sv_pc, sv_req, sv_env, sv_calls, sv_responses, sv_fatal, ed_vars>>

vars == <<cr_vars, tw_vars, cli_vars, nw_vars, sv_vars, net>>

(***************************************************************************)
(* Strings and JavaScript truthiness                                       *)
(***************************************************************************)
Null == <<"<null>">>

Truthy(v) == v # Null /\ v # <<>>

SetMin(S) == CHOOSE x \in S : \A y \in S : x <= y

SetMax(S) == CHOOSE x \in S : \A y \in S : x >= y

\* String.prototype.trim
Trim(s) ==
    LET keep == {i \in 1..Len(s) : s[i] # " "}
    IN  IF keep = {} THEN <<>> ELSE SubSeq(s, SetMin(keep), SetMax(keep))

\* String.prototype.includes
Includes(s, sub) ==
    \E i \in 1..(Len(s) - Len(sub) + 1) : SubSeq(s, i, i + Len(sub) - 1) = sub

\* String.prototype.startsWith
StartsWith(s, prefix) ==
    Len(prefix) <= Len(s) /\ SubSeq(s, 1, Len(prefix)) = prefix

\* String.prototype.endsWith
EndsWith(s, suffix) ==
    Len(suffix) <= Len(s) /\ SubSeq(s, Len(s) - Len(suffix) + 1, Len(s)) = suffix

(***************************************************************************)
(* lib/cookies.ts: credential resolution                                   *)
(***************************************************************************)
\* normalizeValue without the trim
normalizeValue_NoTrim(value) ==
    IF value = Null THEN Null
    ELSE IF Len(value) > 0 THEN value ELSE Null

normalizeValue(value) ==
    IF value = Null THEN Null
    ELSE LET trimmed == Trim(value)
         IN  IF Len(trimmed) > 0 THEN trimmed ELSE Null

\* cookieHeader with the two tokens exchanged
cookieHeader_Swapped(authToken, ct0) == <<"auth_token=">> \o ct0 \o <<"; ct0=">> \o authToken

cookieHeader(authToken, ct0) == <<"auth_token=">> \o authToken \o <<"; ct0=">> \o ct0

buildEmpty == [authToken |-> Null, ct0 |-> Null, cookieHeader |-> Null, source |-> Null]

ENV_AUTH_KEYS == <<"AUTH_TOKEN", "TWITTER_AUTH_TOKEN">>

ENV_CT0_KEYS == <<"CT0", "TWITTER_CT0">>

\* The first key of keys whose variable is non-blank, 0 if there is none.
FirstEnvHit(env, keys) ==
    LET hits == {i \in 1..Len(keys) : Truthy(normalizeValue(env[keys[i]]))}
    IN  IF hits = {} THEN 0 ELSE SetMin(hits)

readEnvCookie(cookies, env, keys, field) ==
    IF Truthy(cookies[field]) THEN cookies
    ELSE LET i == FirstEnvHit(env, keys)
         IN  IF i = 0 THEN cookies
             ELSE [cookies EXCEPT
                     ![field] = normalizeValue(env[keys[i]]),
                     !.source = IF Truthy(@) THEN @ ELSE <<"env ", keys[i]>>]

DEFAULT_SOURCES == <<"safari", "chrome", "firefox">>

resolveSources(cookieSource) ==
    IF cookieSource.tag = "array" THEN cookieSource.arr
    ELSE IF cookieSource.tag = "one" THEN <<cookieSource.one>>
    ELSE DEFAULT_SOURCES

labelForSource(source, profile) ==
    IF source = "safari" THEN <<"Safari">>
    ELSE IF source = "chrome"
         THEN IF Truthy(profile) THEN <<"Chrome profile ">> \o profile ELSE <<"Chrome default profile">>
         ELSE IF Truthy(profile) THEN <<"Firefox profile ">> \o profile ELSE <<"Firefox default profile">>

\* cookies: the array getCookies returned; name: 'auth_token' or 'ct0'
pickCookieValue(cookies, name) ==
    LET matches   == {i \in 1..Len(cookies) : cookies[i].name = name}
        preferred == {i \in matches : EndsWith(cookies[i].domain, <<"x.com">>)}
        twitter   == {i \in matches : EndsWith(cookies[i].domain, <<"twitter.com">>)}
    IN  IF matches = {} THEN Null
        ELSE IF preferred # {} /\ Truthy(cookies[SetMin(preferred)].value)
             THEN cookies[SetMin(preferred)].value
        ELSE IF twitter # {} /\ Truthy(cookies[SetMin(twitter)].value)
             THEN cookies[SetMin(twitter)].value
        ELSE cookies[SetMin(matches)].value

NoCookiesWarning(source) ==
    IF source = "safari"
    THEN "No Twitter cookies found in Safari. Make sure you are logged into x.com in Safari."
    ELSE IF source = "chrome"
    THEN "No Twitter cookies found in Chrome. Make sure you are logged into x.com in Chrome."
    ELSE "No Twitter cookies found in Firefox. Make sure you are logged into x.com in Firefox and the profile exists."

\* store: what getCookies answers for this browser, [cookies, warnings]
readTwitterCookiesFromBrowser(source, store, chromeProfile, firefoxProfile) ==
    LET authToken == pickCookieValue(store.cookies, "auth_token")
        ct0       == pickCookieValue(store.cookies, "ct0")
        out       == [buildEmpty EXCEPT
                        !.authToken = IF Truthy(authToken) THEN authToken ELSE Null,
                        !.ct0       = IF Truthy(ct0) THEN ct0 ELSE Null]
    IN  IF Truthy(out.authToken) /\ Truthy(out.ct0)
        THEN [cookies  |-> [out EXCEPT
                              !.cookieHeader = cookieHeader(out.authToken, out.ct0),
                              !.source = labelForSource(source,
                                  IF source = "chrome" THEN chromeProfile ELSE firefoxProfile)],
              warnings |-> store.warnings]
        ELSE [cookies  |-> out,
              warnings |-> Append(store.warnings, NoCookiesWarning(source))]

MISSING_AUTH_TOKEN ==
    "Missing auth_token - provide via --auth-token, AUTH_TOKEN env var, or login to x.com in Safari/Chrome/Firefox"

MISSING_CT0 ==
    "Missing ct0 - provide via --ct0, CT0 env var, or login to x.com in Safari/Chrome/Firefox"

\* The statements of resolveCredentials before the browser loop.
ResolveFromArgsAndEnv(options, env) ==
    LET c1 == IF Truthy(options.authToken)
              THEN [buildEmpty EXCEPT !.authToken = options.authToken, !.source = <<"CLI argument">>]
              ELSE buildEmpty
        c2 == IF Truthy(options.ct0)
              THEN [c1 EXCEPT !.ct0 = options.ct0,
                              !.source = IF Truthy(@) THEN @ ELSE <<"CLI argument">>]
              ELSE c1
        c3 == readEnvCookie(c2, env, ENV_AUTH_KEYS, "authToken")
    IN  readEnvCookie(c3, env, ENV_CT0_KEYS, "ct0")

\* ResolveTail without the ct0 warning
ResolveTail_NoCt0Warning(cookies, warnings, queried) ==
    [cookies  |-> cookies,
     warnings |-> IF Truthy(cookies.authToken) THEN warnings ELSE Append(warnings, MISSING_AUTH_TOKEN),
     queried  |-> queried]

\* The statements of resolveCredentials after a browser loop that returned nothing.
ResolveTail(cookies, warnings, queried) ==
    LET w1 == IF Truthy(cookies.authToken) THEN warnings ELSE Append(warnings, MISSING_AUTH_TOKEN)
        w2 == IF Truthy(cookies.ct0) THEN w1 ELSE Append(w1, MISSING_CT0)
    IN  [cookies  |-> IF Truthy(cookies.authToken) /\ Truthy(cookies.ct0)
                      THEN [cookies EXCEPT !.cookieHeader = cookieHeader(cookies.authToken, cookies.ct0)]
                      ELSE cookies,
         warnings |-> w2,
         queried  |-> queried]


\* What a browser that yields both cookies makes resolveCredentials return.
BrowserHit(cookies, res) == res.cookies

RECURSIVE BrowserLoop(_, _, _, _, _, _)
\* for (const source of sourcesToTry) { ... }, from position i on
BrowserLoop(cookies, options, stores, i, warnings, queried) ==
    LET sourcesToTry == resolveSources(options.cookieSource)
    IN  IF i > Len(sourcesToTry) THEN ResolveTail(cookies, warnings, queried)
        ELSE LET source == sourcesToTry[i]
                 res    == readTwitterCookiesFromBrowser(source, stores[source],
                                                         options.chromeProfile, options.firefoxProfile)
                 w      == warnings \o res.warnings
                 q      == Append(queried, source)
             IN  IF Truthy(res.cookies.authToken) /\ Truthy(res.cookies.ct0)
                 THEN [cookies |-> BrowserHit(cookies, res), warnings |-> w, queried |-> q]
                 ELSE BrowserLoop(cookies, options, stores, i + 1, w, q)

\* resolveCredentials without the return that precedes the browser loop
resolveCredentials_AlwaysBrowsers(options, env, stores) ==
    BrowserLoop(ResolveFromArgsAndEnv(options, env), options, stores, 1, <<>>, <<>>)

\* resolveCredentials (Safari/Chrome/Firefox version); queried lists the
\* browsers whose cookie store was read, in order.
resolveCredentials(options, env, stores) ==
    LET cookies == ResolveFromArgsAndEnv(options, env)
    IN  IF Truthy(cookies.authToken) /\ Truthy(cookies.ct0)
        THEN [cookies  |-> [cookies EXCEPT !.cookieHeader = cookieHeader(cookies.authToken, cookies.ct0)],
              warnings |-> <<>>,
              queried  |-> <<>>]
        ELSE BrowserLoop(cookies, options, stores, 1, <<>>, <<>>)

(***************************************************************************)
(* lib/cookies.ts: the Chrome-only resolver used by the twitter-cli        *)
(* commands (tweet, reply, check)                                          *)
(***************************************************************************)
chromeSourceLabel(profile) ==
    IF Truthy(profile) THEN <<"Chrome profile ">> \o profile ELSE <<"Chrome default profile">>

RECURSIVE ChromeRows(_, _, _)
\* for (const line of result.split('\n')) { ... }: a row is [name, value],
\* value being what decryptCookieValue returned for it (Null on failure).
ChromeRows(cookies, rows, i) ==
    IF i > Len(rows) THEN cookies
    ELSE LET row == rows[i]
             next == IF ~Truthy(row.value) THEN cookies
                     ELSE IF row.name = "auth_token" /\ ~Truthy(cookies.authToken)
                          THEN [cookies EXCEPT !.authToken = row.value]
                     ELSE IF row.name = "ct0" /\ ~Truthy(cookies.ct0)
                          THEN [cookies EXCEPT !.ct0 = row.value]
                     ELSE cookies
         IN  ChromeRows(next, rows, i + 1)

\* db: the Chrome cookie database as the process finds it,
\* [exists, readFails, rows]
extractCookiesFromChromeDb(db, profile) ==
    LET empty == [authToken |-> Null, ct0 |-> Null, source |-> Null]
    IN  IF ~db.exists
        THEN [cookies |-> empty, warnings |-> <<"Chrome cookies database not found">>]
        ELSE LET read == IF db.readFails THEN empty ELSE ChromeRows(empty, db.rows, 1)
                 c    == IF Truthy(read.authToken) \/ Truthy(read.ct0)
                         THEN [read EXCEPT !.source = chromeSourceLabel(profile)]
                         ELSE read
                 w1   == IF db.readFails THEN <<"Failed to read Chrome cookies">> ELSE <<>>
                 w2   == IF ~Truthy(c.authToken) /\ ~Truthy(c.ct0)
                         THEN Append(w1, "No Twitter cookies found in Chrome. Make sure you are logged into x.com in Chrome.")
                         ELSE w1
             IN  [cookies |-> c, warnings |-> w2]

LEGACY_MISSING_AUTH_TOKEN ==
    "Missing auth_token - provide via --auth-token, AUTH_TOKEN env var, or login to x.com in Chrome"

LEGACY_MISSING_CT0 ==
    "Missing ct0 - provide via --ct0, CT0 env var, or login to x.com in Chrome"

\* if (!cookies.ct0) { for (const key of envCt0Keys) ... } and its auth twin
legacyReadEnv(cookies, env, keys, field, overwriteSource) ==
    IF Truthy(cookies[field]) THEN cookies
    ELSE LET i == FirstEnvHit(env, keys)
         IN  IF i = 0 THEN cookies
             ELSE [cookies EXCEPT
                     ![field] = normalizeValue(env[keys[i]]),
                     !.source = IF ~overwriteSource /\ Truthy(@) THEN @ ELSE <<"env ", keys[i]>>]

\* The Validation block: which warnings the two missing tokens add.
legacyValidation(cookies, warnings) ==
    LET w1 == IF Truthy(cookies.authToken) THEN warnings ELSE Append(warnings, LEGACY_MISSING_AUTH_TOKEN)
    IN  IF Truthy(cookies.ct0) THEN w1 ELSE Append(w1, LEGACY_MISSING_CT0)

resolveCredentialsLegacy(options, env, db) ==
    LET c0 == [authToken |-> Null, ct0 |-> Null, source |-> Null]
        c1 == IF Truthy(options.authToken)
              THEN [c0 EXCEPT !.authToken = options.authToken, !.source = <<"CLI argument">>]
              ELSE c0
        c2 == IF Truthy(options.ct0)
              THEN [c1 EXCEPT !.ct0 = options.ct0,
                              !.source = IF Truthy(@) THEN @ ELSE <<"CLI argument">>]
              ELSE c1
        c3 == legacyReadEnv(c2, env, ENV_AUTH_KEYS, "authToken", TRUE)
        c4 == legacyReadEnv(c3, env, ENV_CT0_KEYS, "ct0", FALSE)
        useChrome == ~Truthy(c4.authToken) \/ ~Truthy(c4.ct0)
        chrome == extractCookiesFromChromeDb(db, options.chromeProfile)
        c5 == IF useChrome /\ ~Truthy(c4.authToken) /\ Truthy(chrome.cookies.authToken)
              THEN [c4 EXCEPT !.authToken = chrome.cookies.authToken, !.source = chrome.cookies.source]
              ELSE c4
        c6 == IF useChrome /\ ~Truthy(c5.ct0) /\ Truthy(chrome.cookies.ct0)
              THEN [c5 EXCEPT !.ct0 = chrome.cookies.ct0,
                              !.source = IF Truthy(@) THEN @ ELSE chrome.cookies.source]
              ELSE c5
        w0 == IF useChrome THEN chrome.warnings ELSE <<>>
    IN  [cookies  |-> c6,
         warnings |-> legacyValidation(c6, w0),
         queried  |-> IF useChrome THEN <<"chrome">> ELSE <<>>]

(***************************************************************************)
(* lib/twitter-client.ts: the posting client                               *)
(***************************************************************************)
CREATE_TWEET_QUERY_ID == <<"znCVAd692dKBq9MgkEhKPQ">>

\* a constructor that tests the auth token alone
ConstructorThrows_AuthOnly(cookies) == ~Truthy(cookies.authToken)

\* constructor: TRUE when it throws 'Both authToken and ct0 cookies are required'
ConstructorThrows(cookies) == ~Truthy(cookies.authToken) \/ ~Truthy(cookies.ct0)

getHeaders(client) ==
    [cookie |-> <<"auth_token=">> \o client.authToken \o <<"; ct0=">> \o client.ct0,
     csrf   |-> client.ct0]

\* Array.prototype.join over strings
RECURSIVE Join(_, _)
Join(strs, sep) ==
    IF Len(strs) = 0 THEN <<>>
    ELSE IF Len(strs) = 1 THEN strs[1]
    ELSE strs[1] \o sep \o Join(Tail(strs), sep)

TweetSuccess(tweetId) == [success |-> TRUE, tweetId |-> tweetId, error |-> Null]

TweetFailure(error) == [success |-> FALSE, tweetId |-> Null, error |-> error]

\* The request createTweet sends.
CreateTweetRequest(client, variables) ==
    [method |-> "POST", op |-> "CreateTweet", queryId |-> CREATE_TWEET_QUERY_ID,
     headers |-> getHeaders(client), variables |-> variables]

\* The result createTweet makes of a completed response.
\* response: [ok, status, text, json, errors, rest_id]; json is "invalid"
\* (response.json() rejects), "null" or "object"; errors is the body's
\* errors array, empty also when the body has none.
ResultOfResponse(response) ==
    IF ~response.ok
    THEN TweetFailure(<<"HTTP ", response.status, ": ">> \o response.text)
    ELSE IF response.json = "invalid"
    THEN TweetFailure(<<"Unexpected token">>)
    ELSE IF response.json = "null"
    THEN TweetFailure(<<"Cannot read properties of null">>)
    ELSE IF Len(response.errors) > 0
    THEN TweetFailure(Join(response.errors, <<", ">>))
    ELSE IF Truthy(response.rest_id)
    THEN TweetSuccess(response.rest_id)
    ELSE TweetFailure(<<"Tweet created but no ID returned">>)

\* createTweet without its catch block
ResultOfRejection_Rethrow(thrown) == [kind |-> "threw", result |-> TweetFailure(thrown)]

\* The catch block of createTweet; thrown is the rejection's message.
ResultOfRejection(thrown) == [kind |-> "returned", result |-> TweetFailure(thrown)]

\* createTweet once fetch has settled with outcome:
\* [kind |-> "reject", message] or [kind |-> "response", response].
\* kind "returned" carries the TweetResult, kind "threw" an exception that
\* escaped to the caller.
createTweet(outcome) ==
    IF outcome.kind = "reject"
    THEN ResultOfRejection(outcome.message)
    ELSE [kind |-> "returned", result |-> ResultOfResponse(outcome.response)]

tweetVariables(text) == [tweet_text |-> text, reply |-> Null]

replyVariables(text, replyToTweetId) == [tweet_text |-> text, reply |-> replyToTweetId]

(***************************************************************************)
(* cli.ts: the twitter-cli commands                                        *)
(***************************************************************************)
URL_HOSTS == {"twitter.com", "x.com"}

DigitChunks == {"1234567890", "42"}

WordChunks == DigitChunks \cup {"user", "status", "statuses", "i", "web"}

RECURSIVE DigitRun(_, _)
\* (\d+): the digits from position i on
DigitRun(s, i) ==
    IF i <= Len(s) /\ s[i] \in DigitChunks THEN <<s[i]>> \o DigitRun(s, i + 1) ELSE <<>>

RECURSIVE WordRun(_, _)
\* \w+: the word characters from position i on
WordRun(s, i) ==
    IF i <= Len(s) /\ s[i] \in WordChunks THEN <<s[i]>> \o WordRun(s, i + 1) ELSE <<>>

\* where (\d+) starts when the pattern matches from position i
IdStart(input, i) == i + 5 + Len(WordRun(input, i + 2))

\* positions where /(?:twitter\.com|x\.com)\/\w+\/status\/(\d+)/ matches
StatusMatches(input) ==
    { i \in 1..Len(input) :
        /\ input[i] \in URL_HOSTS
        /\ i + 1 <= Len(input) /\ input[i + 1] = "/"
        /\ WordRun(input, i + 2) # <<>>
        /\ IdStart(input, i) <= Len(input)
        /\ input[IdStart(input, i) - 3] = "/"
        /\ input[IdStart(input, i) - 2] = "status"
        /\ input[IdStart(input, i) - 1] = "/"
        /\ input[IdStart(input, i)] \in DigitChunks }

extractTweetId_WholeRest(input) ==
    IF StatusMatches(input) # {}
    THEN SubSeq(input, IdStart(input, SetMin(StatusMatches(input))), Len(input))
    ELSE input

\* urlMatch ? urlMatch[1] : input
extractTweetId(input) ==
    IF StatusMatches(input) # {}
    THEN DigitRun(input, IdStart(input, SetMin(StatusMatches(input))))
    ELSE input

Line(stream, text) == [stream |-> stream, text |-> text]

RECURSIVE WarningLines(_)
\* for (const warning of warnings) console.error(...)
WarningLines(warnings) ==
    IF warnings = <<>> THEN <<>>
    ELSE <<Line("stderr", <<"warning: ", Head(warnings)>>)>> \o WarningLines(Tail(warnings))

\* the credential test looking at the auth token alone
MissingCredentials_AuthOnly(cookies) == ~Truthy(cookies.authToken)

\* if (!cookies.authToken || !cookies.ct0)
MissingCredentials(cookies) == ~Truthy(cookies.authToken) \/ ~Truthy(cookies.ct0)

SourceLines(cookies) ==
    IF Truthy(cookies.source)
    THEN <<Line("stderr", <<"Using credentials from: ">> \o cookies.source)>>
    ELSE <<>>

\* a post command that prints the failure and returns
PostOutcome_NoExit(what, result) ==
    IF result.success
    THEN [lines |-> <<Line("stdout", <<what, " posted successfully!">>),
                      Line("stdout", <<"https://x.com/i/status/">> \o result.tweetId)>>,
          exit  |-> Null]
    ELSE [lines |-> <<Line("stderr", <<"Failed to post ", what, ": ">> \o result.error)>>,
          exit  |-> Null]

\* What a post command prints, and the code it exits with (Null: the action
\* returns without calling process.exit), once the client call has returned.
PostOutcome(what, result) ==
    IF result.success
    THEN [lines |-> <<Line("stdout", <<what, " posted successfully!">>),
                      Line("stdout", <<"https://x.com/i/status/">> \o result.tweetId)>>,
          exit  |-> Null]
    ELSE [lines |-> <<Line("stderr", <<"Failed to post ", what, ": ">> \o result.error)>>,
          exit  |-> <<"1">>]

(***************************************************************************)
(* lib/cookies.ts (twitter-client-news): getNews                           *)
(***************************************************************************)
KNOWN_TABS == {"forYou", "trending", "news", "sports", "entertainment"}

TIMELINE_IDS ==
    [tab \in KNOWN_TABS |->
        IF tab = "forYou" THEN "VGltZWxpbmU6DAC2CwABAAAAB2Zvcl95b3UAAA=="
        ELSE IF tab = "trending" THEN "VGltZWxpbmU6DAC2CwABAAAACHRyZW5kaW5nAAA="
        ELSE IF tab = "news" THEN "VGltZWxpbmU6DAC2CwABAAAABG5ld3MAAA=="
        ELSE IF tab = "sports" THEN "VGltZWxpbmU6DAC2CwABAAAABnNwb3J0cwAA"
        ELSE "VGltZWxpbmU6DAC2CwABAAAADWVudGVydGFpbm1lbnQAAA=="]

DEFAULT_GETNEWS_TABS == <<"forYou", "news", "sports", "entertainment">>

\* getNews ignoring options.tabs
TabsOf_IgnoreOption(options) == DEFAULT_GETNEWS_TABS

\* tabs = [...] default of the options destructuring
TabsOf(options) == IF options.tabs = Null THEN DEFAULT_GETNEWS_TABS ELSE options.tabs

\* headline.split(' ').length
WordCount(s) == Cardinality({i \in 1..Len(s) : s[i] = " "}) + 1

\* itemContent.name || itemContent.title
HeadlineOf(itemContent) ==
    IF Truthy(itemContent.name) THEN itemContent.name ELSE itemContent.title

\* every item content taken for AI news
IsAiNews_Always(itemContent) == TRUE

\* isExplicitlyAiTrend || (isFullSentence && hasNewsCategory)
IsAiNews(itemContent) ==
    LET headline        == HeadlineOf(itemContent)
        socialContext   == IF Truthy(itemContent.social) THEN itemContent.social ELSE <<>>
        hasNewsCategory == Includes(socialContext, <<"News">>) \/ Includes(socialContext, <<"hours", " ", "ago">>)
        isFullSentence  == WordCount(headline) >= 5
    IN  itemContent.is_ai_trend \/ (isFullSentence /\ hasNewsCategory)

NoItem ==
    [headline |-> Null, ai |-> FALSE, tweets |-> FALSE,
     entry |-> [name |-> Null, title |-> Null, is_ai_trend |-> FALSE, social |-> Null]]

\* The NewsItem parseNewsItemFromContent returns, NoItem when it returns null.
\* Of the item's fields the model keeps headline, the AI mark of the
\* category, and tweets; entry is the item content the item was made of.
parseNewsItemFromContent(itemContent, seenHeadlines, aiOnly) ==
    LET headline == HeadlineOf(itemContent)
    IN  IF ~Truthy(headline) THEN NoItem
        ELSE IF aiOnly /\ ~IsAiNews(itemContent) THEN NoItem
        ELSE IF headline \in seenHeadlines THEN NoItem
        ELSE [headline |-> headline, ai |-> IsAiNews(itemContent), tweets |-> FALSE,
              entry |-> itemContent]

RECURSIVE ParseEntries(_, _, _, _, _, _)
\* The entry loops of parseTimelineTabItems over the item contents of the
\* response in document order, from position k on.  Every parse is preceded
\* by the items.length >= maxCount test, in the entry loop for an entry's own
\* itemContent and in the inner loop for a module's items, and a break of the
\* inner loop is followed by the break of the outer one.
ParseEntries(contents, k, items, seenHeadlines, maxCount, aiOnly) ==
    IF k > Len(contents) \/ Len(items) >= maxCount THEN items
    ELSE LET newsItem == parseNewsItemFromContent(contents[k], seenHeadlines, aiOnly)
         IN  IF newsItem = NoItem
             THEN ParseEntries(contents, k + 1, items, seenHeadlines, maxCount, aiOnly)
             ELSE ParseEntries(contents, k + 1, Append(items, newsItem),
                               seenHeadlines \cup {newsItem.headline}, maxCount, aiOnly)

parseTimelineTabItems(contents, maxCount, aiOnly) ==
    ParseEntries(contents, 1, <<>>, {}, maxCount, aiOnly)

\* The request fetchTimelineTab sends.
TimelineRequest(timelineId, maxCount) ==
    [method |-> "GET", op |-> "GenericTimelineById",
     variables |-> [timelineId |-> timelineId, count |-> maxCount * 2, includePromotedContent |-> FALSE]]

\* fetchTimelineTab once its fetch has settled with outcome:
\* [kind |-> "reject" | "http" | "errors" | "ok", contents].
\* [threw |-> TRUE] when it throws, else the tab's items.
fetchTimelineTab(outcome, maxCount, aiOnly) ==
    IF outcome.kind # "ok"
    THEN [threw |-> TRUE, items |-> <<>>]
    ELSE [threw |-> FALSE, items |-> parseTimelineTabItems(outcome.contents, maxCount, aiOnly)]

\* the tab loop without the seenHeadlines test
IsNewHeadline_NoTest(item, seenHeadlines) == TRUE

\* Whether an item of a tab is pushed to allItems.
IsNewHeadline(item, seenHeadlines) == item.headline \notin seenHeadlines

RECURSIVE Deduplicate(_, _, _, _)
\* for (const item of tabItems) { if (!seenHeadlines.has(...)) ... }
Deduplicate(tabItems, k, allItems, seenHeadlines) ==
    IF k > Len(tabItems) THEN [allItems |-> allItems, seenHeadlines |-> seenHeadlines]
    ELSE IF IsNewHeadline(tabItems[k], seenHeadlines)
         THEN Deduplicate(tabItems, k + 1, Append(allItems, tabItems[k]),
                          seenHeadlines \cup {tabItems[k].headline})
         ELSE Deduplicate(tabItems, k + 1, allItems, seenHeadlines)

\* the tab loop without its break
StopEarly_Never(allItems, count) == FALSE

\* if (allItems.length >= count) break
StopEarly(allItems, count) == Len(allItems) >= count

\* the tab loop without its try/catch
OnTabError_Rethrow == "throw"

\* The catch block of the tab loop: "continue" with the other tabs.
OnTabError == "continue"

\* getNews without the slice
SliceCount_NoSlice(allItems, count) == allItems

\* allItems.slice(0, count), count an integer
SliceCount(allItems, count) ==
    IF count >= 0 THEN SubSeq(allItems, 1, IF count < Len(allItems) THEN count ELSE Len(allItems))
    ELSE SubSeq(allItems, 1, IF Len(allItems) + count > 0 THEN Len(allItems) + count ELSE 0)

\* The request enrichWithTweets makes search send for one item.
SearchRequest(query, count) ==
    [method |-> "GET", op |-> "SearchTimeline", variables |-> [rawQuery |-> query, count |-> count]]

NewsSuccess(items) == [kind |-> "returned", success |-> TRUE, items |-> items, error |-> Null]

NewsFailure(error) == [kind |-> "returned", success |-> FALSE, items |-> <<>>, error |-> error]

NewsThrew == [kind |-> "threw", success |-> FALSE, items |-> <<>>, error |-> Null]

(***************************************************************************)
(* web/server.ts: buildEdition                                             *)
(***************************************************************************)
DEFAULT_NEWS_TABS == <<"forYou", "news", "sports", "entertainment">>

MAX_NEWS_COUNT == 40

MAX_TOPIC_COUNT == 40

MAX_CLASSIFIED_COUNT == 30

MAX_TWEETS_PER_ITEM == 6

\* A JSON value in a place where a number is expected: def is FALSE for a
\* missing or null one, finite is Number.isFinite of it (FALSE for a string,
\* a boolean and for a number too large for a double), and a finite number
\* is halves / 2, so that fractions have a floor to be taken
Undefined == [def |-> FALSE, finite |-> FALSE, halves |-> 0]

Num(n) == [def |-> TRUE, finite |-> TRUE, halves |-> 2 * n]

AndAHalf(n) == [def |-> TRUE, finite |-> TRUE, halves |-> 2 * n + 1]

NotFinite == [def |-> TRUE, finite |-> FALSE, halves |-> 0]

\* value ?? fallback
OrElse(value, fallback) == IF value.def THEN value ELSE Num(fallback)

\* Math.floor
Floor(value) == value.halves \div 2

\* clamp without the lower limit
clamp_NoMin(value, min, max) ==
    IF ~value.finite THEN min
    ELSE IF max < Floor(value) THEN max ELSE Floor(value)

\* Math.max(min, Math.min(max, Math.floor(value))), min when not finite
clamp(value, min, max) ==
    IF ~value.finite THEN min
    ELSE LET lower == IF max < Floor(value) THEN max ELSE Floor(value)
         IN  IF min > lower THEN min ELSE lower

\* Array.prototype.filter
RECURSIVE FilterSeq(_, _)
FilterSeq(seq, keep) ==
    IF seq = <<>> THEN <<>>
    ELSE IF Head(seq) \in keep THEN <<Head(seq)>> \o FilterSeq(Tail(seq), keep)
    ELSE FilterSeq(Tail(seq), keep)

Range(seq) == {seq[i] : i \in 1..Len(seq)}

normalizeTabs(tabs) ==
    IF tabs = Null \/ Len(tabs) = 0 THEN DEFAULT_NEWS_TABS
    ELSE LET filtered == FilterSeq(tabs, {"forYou", "news", "sports", "entertainment", "trending"})
         IN  IF Len(filtered) > 0 THEN filtered ELSE DEFAULT_NEWS_TABS

parseCookieSources(input) ==
    IF input = Null \/ input = <<>> THEN [tag |-> "undefined", one |-> "", arr |-> <<>>]
    ELSE LET filtered == FilterSeq(input, {"safari", "chrome", "firefox"})
         IN  IF Len(filtered) > 0 THEN [tag |-> "array", one |-> "", arr |-> filtered]
             ELSE [tag |-> "undefined", one |-> "", arr |-> <<>>]

\* value ?? fallback for an optional boolean ("undefined", "true", "false")
BoolOr(value, fallback) == IF value = "undefined" THEN fallback ELSE value = "true"

\* buildEdition leaving includeTrending set when trending becomes the news tab
EditionTabs_KeepTrending(payload) ==
    LET tabs     == normalizeTabs(payload.news.tabs)
        trending == BoolOr(payload.news.includeTrending, "trending" \in Range(tabs))
        newsTabs == FilterSeq(tabs, Range(tabs) \ {"trending"})
    IN  IF Len(newsTabs) = 0 /\ trending
        THEN [newsTabs |-> <<"trending">>, includeTrending |-> trending]
        ELSE [newsTabs |-> newsTabs, includeTrending |-> trending]

\* The tab list and the trending switch buildEdition derives from the payload.
EditionTabs(payload) ==
    LET tabs     == normalizeTabs(payload.news.tabs)
        trending == BoolOr(payload.news.includeTrending, "trending" \in Range(tabs))
        newsTabs == FilterSeq(tabs, Range(tabs) \ {"trending"})
    IN  IF Len(newsTabs) = 0 /\ trending
        THEN [newsTabs |-> <<"trending">>, includeTrending |-> FALSE]
        ELSE [newsTabs |-> newsTabs, includeTrending |-> trending]

\* The client calls buildEdition starts before awaiting Promise.all.
EditionCalls(payload) ==
    LET t               == EditionTabs(payload)
        newsCount       == clamp(OrElse(payload.news.count, 16), 4, MAX_NEWS_COUNT)
        topicCount      == clamp(OrElse(payload.topic.count, 12), 4, MAX_TOPIC_COUNT)
        classifiedCount == clamp(OrElse(payload.classifieds.count, 10), 3, MAX_CLASSIFIED_COUNT)
        tweetsPerItem   == clamp(OrElse(payload.news.tweetsPerItem, 3), 1, MAX_TWEETS_PER_ITEM)
        query           == IF payload.query = Null THEN Null ELSE Trim(payload.query)
        enabled         == BoolOr(payload.classifieds.enabled, TRUE)
    IN  <<[call |-> "getNews", slot |-> "news", count |-> newsCount,
           tabs |-> IF Len(t.newsTabs) > 0 THEN t.newsTabs ELSE DEFAULT_NEWS_TABS,
           aiOnly |-> BoolOr(payload.news.aiOnly, FALSE),
           withTweets |-> BoolOr(payload.news.withTweets, TRUE),
           tweetsPerItem |-> tweetsPerItem, query |-> Null]>>
        \o (IF Truthy(query)
            THEN <<[call |-> "search", slot |-> "topic", count |-> topicCount, tabs |-> <<>>,
                    aiOnly |-> FALSE, withTweets |-> FALSE, tweetsPerItem |-> 0,
                    query |-> query \o <<" ", "-filter:retweets">>]>>
            ELSE <<>>)
        \o (IF enabled
            THEN <<[call |-> "search", slot |-> "hiring", count |-> classifiedCount, tabs |-> <<>>,
                    aiOnly |-> FALSE, withTweets |-> FALSE, tweetsPerItem |-> 0,
                    query |-> <<"(hiring OR ...)", " ", "-filter:retweets">>],
                   [call |-> "search", slot |-> "seeking", count |-> classifiedCount, tabs |-> <<>>,
                    aiOnly |-> FALSE, withTweets |-> FALSE, tweetsPerItem |-> 0,
                    query |-> <<"(\"open to work\" OR ...)", " ", "-filter:retweets">>]>>
            ELSE <<>>)
        \o (IF t.includeTrending
            THEN <<[call |-> "getNews", slot |-> "trending",
                    count |-> IF 12 < newsCount THEN 12 ELSE newsCount, tabs |-> <<"trending">>,
                    aiOnly |-> FALSE, withTweets |-> FALSE, tweetsPerItem |-> 5, query |-> Null]>>
            ELSE <<>>)

\* The promises buildEdition hands to Promise.all, in array order.
POSITIONS == <<"news", "topic", "hiring", "seeking", "trending">>

\* Promise.resolve({ success: true, tweets: [] }) of a request not made
RESOLVED_EMPTY == [success |-> TRUE, items |-> <<>>, error |-> Null]

CallStarted(calls, slot) == \E i \in 1..Len(calls) : calls[i].slot = slot

\* What the promise of a slot fulfils with.
PromiseValue(calls, results, slot) ==
    IF CallStarted(calls, slot) THEN results[slot] ELSE RESOLVED_EMPTY

\* Promise.all filling its array in the order the promises settled
PromiseAll_ByCompletion(calls, results, settled) ==
    [i \in 1..Len(POSITIONS) |-> PromiseValue(calls, results, settled[i])]

\* Promise.all: the array of the fulfilment values, in the order of the
\* promises given; settled is the order in which they settled.
PromiseAll(calls, results, settled) ==
    [i \in 1..Len(POSITIONS) |-> PromiseValue(calls, results, POSITIONS[i])]

\* const [newsResult, topicResult, hiringResult, seekingResult, trendingResult] = ...
Destructure(arr) ==
    [news |-> arr[1], topic |-> arr[2], hiring |-> arr[3], seeking |-> arr[4], trending |-> arr[5]]

MISSING_REQUIRED ==
    <<"Missing required credentials. Provide auth_token/ct0 or login to x.com in a supported browser.">>

\* A section of the edition: what its request returned, empty when the
\* request was not made ("none") or was unsuccessful.
Section(calls, results, slot) ==
    IF (\E i \in 1..Len(calls) : calls[i].slot = slot) /\ results[slot].success
    THEN results[slot].items ELSE <<>>

\* buildEdition failing on an unsuccessful topic search too
EditionOfResults_TopicFatal(payload, creds, calls, results) ==
    IF ~results.news.success \/ ~results.topic.success
    THEN [ok |-> FALSE, warnings |-> creds.warnings, error |-> results.news.error,
          edition |-> Null]
    ELSE [ok |-> TRUE, warnings |-> creds.warnings, error |-> Null,
          edition |-> [news     |-> results.news.items,
                       trends   |-> Section(calls, results, "trending"),
                       topic    |-> Section(calls, results, "topic"),
                       hasTopic |-> Truthy(IF payload.query = Null THEN Null ELSE Trim(payload.query)),
                       hiring   |-> Section(calls, results, "hiring"),
                       seeking  |-> Section(calls, results, "seeking")]]

\* The response buildEdition makes of the settled results.
EditionOfResults(payload, creds, calls, results) ==
    IF ~results.news.success
    THEN [ok |-> FALSE, warnings |-> creds.warnings, error |-> results.news.error,
          edition |-> Null]
    ELSE [ok |-> TRUE, warnings |-> creds.warnings, error |-> Null,
          edition |-> [news     |-> results.news.items,
                       trends   |-> Section(calls, results, "trending"),
                       topic    |-> Section(calls, results, "topic"),
                       hasTopic |-> Truthy(IF payload.query = Null THEN Null ELSE Trim(payload.query)),
                       hiring   |-> Section(calls, results, "hiring"),
                       seeking  |-> Section(calls, results, "seeking")]]

\* buildEdition: creds is what ctx.resolveCredentialsFromOptions resolved,
\* results what each client call returns.  threw: the promise rejects
\* (payload is not an object: JSON null makes payload.news throw).
buildEdition(payload, creds, results) ==
    IF payload.isNull
    THEN [threw |-> TRUE, message |-> <<"Cannot read properties of null">>,
          response |-> [ok |-> FALSE, warnings |-> <<>>, error |-> Null, edition |-> Null],
          calls |-> <<>>]
    ELSE IF ~Truthy(creds.cookies.authToken) \/ ~Truthy(creds.cookies.ct0)
    THEN [threw |-> FALSE, message |-> <<>>,
          response |-> [ok |-> FALSE, warnings |-> creds.warnings, error |-> MISSING_REQUIRED,
                        edition |-> Null],
          calls |-> <<>>]
    ELSE [threw |-> FALSE, message |-> <<>>,
          response |-> EditionOfResults(payload, creds, EditionCalls(payload), results),
          calls |-> EditionCalls(payload)]

(***************************************************************************)
(* web/server.ts: the request handler                                      *)
(***************************************************************************)
PUBLIC_DIR == <<"/", "srv", "/", "public">>

RECURSIVE Segments(_, _, _)
\* path.split('/'): the segments of s from position k on, cur being the
\* segment read so far
Segments(s, k, cur) ==
    IF k > Len(s) THEN <<cur>>
    ELSE IF s[k] = "/" THEN <<cur>> \o Segments(s, k + 1, <<>>)
    ELSE Segments(s, k + 1, Append(cur, s[k]))

RECURSIVE Normalize(_, _)
\* Removal of '', '.' and '..' segments; stack holds the segments kept.
Normalize(segs, stack) ==
    IF segs = <<>> THEN stack
    ELSE LET seg == Head(segs)
         IN  IF seg = <<>> \/ seg = <<".">> THEN Normalize(Tail(segs), stack)
             ELSE IF seg = <<"..">>
                  THEN Normalize(Tail(segs), IF stack = <<>> THEN <<>> ELSE SubSeq(stack, 1, Len(stack) - 1))
             ELSE Normalize(Tail(segs), Append(stack, seg))

RECURSIVE JoinPath(_)
JoinPath(segs) == IF segs = <<>> THEN <<>> ELSE <<"/">> \o Head(segs) \o JoinPath(Tail(segs))

AbsolutePath(segs) == IF segs = <<>> THEN <<"/">> ELSE JoinPath(segs)

\* path.resolve(base, relative), base absolute
resolve(base, relative) == AbsolutePath(Normalize(Segments(base \o <<"/">> \o relative, 1, <<>>), <<>>))

IsQuery(chunk) == chunk \in {"?x=1"}

\* TRUE when new URL(url, 'http://localhost') throws: '//' with no host
UrlThrows(url) == StartsWith(url, <<"/", "/">>) /\ (Len(url) = 2 \/ url[3] = "/" \/ IsQuery(url[3]))

\* new URL(url, base).pathname: the query is dropped, dot segments are removed
UrlPathname(url) ==
    LET q    == {i \in 1..Len(url) : IsQuery(url[i])}
        path == IF q = {} THEN url ELSE SubSeq(url, 1, SetMin(q) - 1)
    IN  AbsolutePath(Normalize(Segments(path, 1, <<>>), <<>>))
            \o (IF Len(path) > 1 /\ path[Len(path)] = "/" THEN <<"/">> ELSE <<>>)

\* TRUE when decodeURIComponent throws URIError: a '%' not followed by two
\* hexadecimal digits
DecodeThrows(s) == \E i \in 1..Len(s) : s[i] = "%"

\* decodeURIComponent of a well-formed string
decodeURIComponent(s) ==
    [i \in 1..Len(s) |-> IF s[i] = "%2F" THEN "/" ELSE IF s[i] = "%20" THEN " " ELSE s[i]]

\* The file path serveStatic computes for a request URL.
StaticFilePath(url) ==
    LET pathname  == decodeURIComponent(UrlPathname(url))
        cleanPath == IF pathname = <<"/">> THEN <<"/", "index.html">> ELSE pathname
    IN  resolve(PUBLIC_DIR, <<".">> \o cleanPath)

\* A response as sent: ok is the ok field of a JSON body ("-" when the body
\* is not JSON), text the error message or the text or the file sent.
TextResponse(status, payload) == [status |-> status, type |-> "text/plain", ok |-> "-", text |-> payload]

JsonResponse(status, ok, error) ==
    [status |-> status, type |-> "application/json", ok |-> IF ok THEN "true" ELSE "false", text |-> error]

FileResponse(path) == [status |-> 200, type |-> "file", ok |-> "-", text |-> path]

\* stat / createReadStream / readFile on the disk named fs
FileKind(fs, path) ==
    IF path = PUBLIC_DIR \o <<"/", "index.html">> THEN (IF fs = "noIndex" THEN "none" ELSE "file")
    ELSE IF path = PUBLIC_DIR \o <<"/", "app.js">> THEN (IF fs = "locked" THEN "unreadable" ELSE "file")
    ELSE IF path = PUBLIC_DIR \o <<"/", "sub">> THEN "dir"
    ELSE IF path = PUBLIC_DIR THEN "dir"
    ELSE IF path = <<"/", "etc", "/", "passwd">> THEN "file"
    ELSE IF path = PUBLIC_DIR \o <<"2", "/", "x">> THEN "file"
    ELSE "none"

\* What a rejection inside serveStatic does to the handler: the handler's
\* promise rejects with nothing to catch it.
OnStaticThrow == [handled |-> TRUE, responses |-> <<>>, fatal |-> TRUE]

\* serveStatic: a path of the disk is a "file", "unreadable" (a file stat
\* finds and createReadStream cannot open), a "dir" or "none".
serveStatic(url, fs) ==
    IF UrlThrows(url) \/ DecodeThrows(UrlPathname(url)) THEN OnStaticThrow
    ELSE LET filePath == StaticFilePath(url)
         IN  IF ~StartsWith(filePath, PUBLIC_DIR)
             THEN [handled |-> TRUE, responses |-> <<TextResponse(403, <<"Forbidden">>)>>, fatal |-> FALSE]
             ELSE IF FileKind(fs, filePath) = "file"
             THEN [handled |-> TRUE, responses |-> <<FileResponse(filePath)>>, fatal |-> FALSE]
             ELSE IF FileKind(fs, filePath) = "unreadable"
             THEN [handled |-> TRUE, responses |-> <<FileResponse(filePath)>>, fatal |-> TRUE]
             ELSE [handled |-> FALSE, responses |-> <<>>, fatal |-> FALSE]

\* readRequestJson: body is "empty", "invalid" (JSON.parse throws),
\* "aborted" (the request emits 'error') or "json" with its payload.
ReadThrows(body) == body \in {"invalid", "aborted"}

\* every edition response sent as 200
EditionStatus_Always200(response) == 200

\* The status the handler sends for an edition response.
EditionStatus(response) == IF response.ok THEN 200 ELSE 400

\* The catch block of the /api/edition branch.
EditionCatch(message) == <<JsonResponse(500, FALSE, message)>>

(***************************************************************************)
(* Inputs of the credential resolvers                                      *)
(***************************************************************************)
CliAuthValues == {Null, <<>>, <<"cliA">>}

CliCt0Values == {Null, <<>>, <<"cliC">>}

CookieSourceValues ==
    { [tag |-> "undefined", one |-> "", arr |-> <<>>],
      [tag |-> "one", one |-> "chrome", arr |-> <<>>],
      [tag |-> "array", one |-> "", arr |-> <<"firefox", "safari">>],
      [tag |-> "array", one |-> "", arr |-> <<>>] }

OptionValues ==
    [authToken : CliAuthValues, ct0 : CliCt0Values, cookieSource : CookieSourceValues,
     chromeProfile : {Null}, firefoxProfile : {Null}]

EnvValues ==
    [AUTH_TOKEN : {Null, <<" ">>, <<" ", "envA", " ">>},
     TWITTER_AUTH_TOKEN : {Null, <<"envA2">>},
     CT0 : {Null, <<>>, <<"envC", " ">>},
     TWITTER_CT0 : {Null, <<"envC2">>}]

Cookie(name, value, domain) == [name |-> name, value |-> value, domain |-> domain]

StoreValues(source) ==
    LET a == Cookie("auth_token", <<"brA", source>>, <<".", "x.com">>)
        c == Cookie("ct0", <<"brC", source>>, <<".", "x.com">>)
        aOld == Cookie("auth_token", <<"oldA", source>>, <<".", "twitter.com">>)
        cOld == Cookie("ct0", <<"oldC", source>>, <<".", "twitter.com">>)
    IN  IF source = "safari"
        THEN { [cookies |-> <<>>, warnings |-> <<>>],
               [cookies |-> <<a, c>>, warnings |-> <<>>],
               [cookies |-> <<a>>, warnings |-> <<>>],
               [cookies |-> <<aOld, a, cOld>>, warnings |-> <<>>] }
        ELSE IF source = "chrome"
        THEN { [cookies |-> <<>>, warnings |-> <<"provider warning">>],
               [cookies |-> <<a, c>>, warnings |-> <<>>],
               [cookies |-> <<c>>, warnings |-> <<>>] }
        ELSE { [cookies |-> <<>>, warnings |-> <<>>],
               [cookies |-> <<c, a>>, warnings |-> <<>>] }

StoresValues ==
    [safari : StoreValues("safari"), chrome : StoreValues("chrome"), firefox : StoreValues("firefox")]

Row(name, value) == [name |-> name, value |-> value]

ChromeDbValues ==
    { [exists |-> FALSE, readFails |-> FALSE, rows |-> <<>>],
      [exists |-> TRUE, readFails |-> TRUE, rows |-> <<>>],
      [exists |-> TRUE, readFails |-> FALSE, rows |-> <<>>],
      [exists |-> TRUE, readFails |-> FALSE, rows |-> <<Row("auth_token", <<"dbA">>), Row("ct0", <<"dbC">>)>>],
      [exists |-> TRUE, readFails |-> FALSE, rows |-> <<Row("auth_token", Null), Row("ct0", <<"dbC">>)>>],
      [exists |-> TRUE, readFails |-> FALSE,
       rows |-> <<Row("auth_token", <<"dbA">>), Row("auth_token", <<"dbA2">>)>>] }

(***************************************************************************)
(* Inputs of the posting client                                            *)
(***************************************************************************)
Response(ok, status, text, json, errors, rest_id) ==
    [ok |-> ok, status |-> status, text |-> text, json |-> json, errors |-> errors, rest_id |-> rest_id]

MaxErrors == 2

RECURSIVE SeqsUpTo(_, _)
\* all sequences over S of length 0..n
SeqsUpTo(S, n) ==
    IF n = 0 THEN {<<>>}
    ELSE LET shorter == SeqsUpTo(S, n - 1)
         IN  shorter \cup {Append(q, x) : q \in shorter, x \in S}

ErrorMessages == {<<>>, <<"Rate limit exceeded">>}

ResponseValues ==
    { Response(FALSE, "403", t, "object", <<>>, Null) : t \in {<<>>, <<"Forbidden">>} }
    \cup { Response(TRUE, "200", <<>>, j, <<>>, Null) : j \in {"invalid", "null"} }
    \cup { Response(TRUE, "200", <<>>, "object", e, r) :
             e \in SeqsUpTo(ErrorMessages, MaxErrors),
             r \in {Null, <<>>, <<"1234567890">>} }

FetchOutcomes ==
    { [kind |-> "reject", message |-> m, response |-> Response(FALSE, "0", <<>>, "object", <<>>, Null)] :
        m \in {<<>>, <<"Network error">>} }
    \cup { [kind |-> "response", message |-> <<>>, response |-> r] : r \in ResponseValues }

ClientCookies ==
    { [authToken |-> a, ct0 |-> c, source |-> Null] :
        a \in {Null, <<>>, <<"test_auth_token">>}, c \in {Null, <<>>, <<"test_ct0_token">>} }

(***************************************************************************)
(* Inputs of getNews                                                       *)
(***************************************************************************)
MaxCount == 2

MaxEntries == 2

ItemContent(name, title, is_ai_trend, social) ==
    [name |-> name, title |-> title, is_ai_trend |-> is_ai_trend, social |-> social]

SENTENCE == <<"Markets", " ", "rally", " ", "after", " ", "rate", " ", "cut">>

ItemContents ==
    { ItemContent(<<"Alpha">>, Null, TRUE, Null),
      ItemContent(<<"Beta">>, Null, FALSE, <<"Sports", " ", "Trending">>),
      ItemContent(Null, SENTENCE, FALSE, <<"News", " ", "2", " ", "hours", " ", "ago">>),
      ItemContent(<<"Alpha">>, Null, FALSE, Null),
      ItemContent(Null, Null, TRUE, Null) }

TabOutcomes ==
    { [kind |-> k, contents |-> <<>>] : k \in {"reject", "http", "errors"} }
    \cup { [kind |-> "ok", contents |-> c] : c \in SeqsUpTo(ItemContents, MaxEntries) }

TabsValues == {Null, <<"trending">>, <<"news", "bogus", "sports">>}

NewsInputs ==
    [count : 0..MaxCount,
     options : [tabs : TabsValues, aiOnly : BOOLEAN, withTweets : BOOLEAN, tweetsPerItem : {5}]]

NoStores == [s \in {"safari", "chrome", "firefox"} |-> [cookies |-> <<>>, warnings |-> <<>>]]

NoChromeDb == [exists |-> FALSE, readFails |-> FALSE, rows |-> <<>>]

CredInputs ==
    { [version |-> "browsers", options |-> o, env |-> e, stores |-> st, db |-> NoChromeDb] :
        o \in OptionValues, e \in EnvValues, st \in StoresValues }
    \cup
    { [version |-> "chrome", options |-> o, env |-> e, stores |-> NoStores, db |-> db] :
        o \in {x \in OptionValues : x.cookieSource.tag = "undefined"}, e \in EnvValues,
        db \in ChromeDbValues }

NoResult == [cookies |-> buildEmpty, warnings |-> <<>>, queried |-> <<>>]

(***************************************************************************)
(* Inputs of the web server                                                *)
(***************************************************************************)
UrlValues ==
    { <<"/">>, <<"/", "app.js">>, <<"/", "missing.css">>, <<"/", "sub">>,
      <<"/", "api", "/", "edition">>, <<"/", "api", "/", "edition", "?x=1">>,
      <<"/", "api", "/", "other">>,
      <<"/", "%">>, <<"/", "/">>,
      <<"/", "..", "%2F", "..", "%2F", "etc", "/", "passwd">>,
      <<"/", "..", "%2F", "public", "2", "/", "x">> }

NewsPart(count, tabs, includeTrending, aiOnly, withTweets, tweetsPerItem) ==
    [count |-> count, tabs |-> tabs, includeTrending |-> includeTrending, aiOnly |-> aiOnly,
     withTweets |-> withTweets, tweetsPerItem |-> tweetsPerItem]

Payload(isNull, query, news, topicCount, enabled, classifiedCount, auth) ==
    [isNull |-> isNull, query |-> query, news |-> news, topic |-> [count |-> topicCount],
     classifieds |-> [enabled |-> enabled, count |-> classifiedCount], auth |-> auth]

NoAuth == [authToken |-> Null, ct0 |-> Null, cookieSource |-> Null]

EmptyPayload ==
    Payload(FALSE, Null, NewsPart(Undefined, Null, "undefined", "undefined", "undefined", Undefined),
            Undefined, "undefined", Undefined, NoAuth)

AuthValues ==
    { NoAuth,
      [authToken |-> <<"a">>, ct0 |-> <<"c">>, cookieSource |-> Null],
      [authToken |-> <<"a">>, ct0 |-> Null, cookieSource |-> <<"chrome", "edge">>] }

PayloadValues ==
    { [EmptyPayload EXCEPT !.isNull = TRUE] }
    \cup
    { Payload(FALSE, q, n, Num(-3), e, NotFinite, a) :
        q \in {Null, <<" ", "ai", " ">>},
        n \in { EmptyPayload.news,
                NewsPart(Num(100), <<"trending">>, "undefined", "true", "false", Num(0)),
                NewsPart(Num(7), <<"trending">>, "false", "undefined", "undefined", NotFinite),
                NewsPart(Undefined, <<"news", "bogus", "trending">>, "undefined", "false", "true", Num(2)) },
        e \in {"undefined", "false"},
        a \in AuthValues }

CallResult(success, items, error) == [success |-> success, items |-> items, error |-> error]

ResultValues ==
    [news     : {CallResult(TRUE, <<"headline">>, Null), CallResult(FALSE, <<>>, <<"No news items found">>)},
     topic    : {CallResult(TRUE, <<"tweet">>, Null), CallResult(FALSE, <<>>, <<"HTTP 429">>)},
     hiring   : {CallResult(TRUE, <<"tweet">>, Null), CallResult(FALSE, <<>>, <<"HTTP 429">>)},
     seeking  : {CallResult(TRUE, <<"tweet">>, Null), CallResult(FALSE, <<>>, <<"HTTP 429">>)},
     trending : {CallResult(TRUE, <<"trend">>, Null), CallResult(FALSE, <<>>, <<"No news items found">>)}]

SafariStores == [NoStores EXCEPT !.safari = CHOOSE st \in StoreValues("safari") : Len(st.cookies) = 2]

NoEnv == [AUTH_TOKEN |-> Null, TWITTER_AUTH_TOKEN |-> Null, CT0 |-> Null, TWITTER_CT0 |-> Null]

QuietEnv ==
    [fs |-> "full", stores |-> NoStores,
     results |-> CHOOSE r \in ResultValues : \A slot \in DOMAIN r : r[slot].success]

Request(method, url, body, payload) == [method |-> method, url |-> url, body |-> body, payload |-> payload]

ServerInputs ==
    { [req |-> Request(m, u, "empty", EmptyPayload), env |-> [QuietEnv EXCEPT !.fs = fs]] :
        m \in {"GET", "PUT"}, u \in UrlValues \cup {Null}, fs \in {"full", "noIndex", "locked"} }
    \cup
    { [req |-> Request("POST", u, b, EmptyPayload), env |-> [QuietEnv EXCEPT !.stores = SafariStores]] :
        u \in UrlValues, b \in {"empty", "invalid", "aborted"} }
    \cup
    { [req |-> Request("POST", <<"/", "api", "/", "edition">>, "json", p),
       env |-> [fs |-> "full", stores |-> st, results |-> r]] :
        p \in PayloadValues, st \in {NoStores, SafariStores}, r \in ResultValues }

(***************************************************************************)
(* lib/version.ts: the package version.  A directory is the number of      *)
(* segments of its absolute path, so the root is 0 and path.dirname takes  *)
(* one segment off; fs gives the two files of every directory from the     *)
(* root down to the start directory.  A file that cannot be read is Null.  *)
(***************************************************************************)
FALLBACK_VERSION == <<"unknown">>

\* for (let i = 0; i < 10; i += 1)
WALK_LIMIT == 10

NoFiles == [package |-> [kind |-> "missing"], VERSION |-> Null]

\* path.dirname
dirname(dir) == IF dir = 0 THEN 0 ELSE dir - 1

\* package.json is missing, text that JSON.parse rejects ("invalid"), the JSON
\* null, or an object whose version is missing (Null), a number or a string
readPackageVersionFromJsonFile(fs, dir) ==
    LET raw == fs[dir].package
    IN  IF raw.kind \in {"missing", "invalid"} THEN Null
        ELSE IF raw.kind = "object" /\ raw.versionType = "string" /\ Len(Trim(raw.version)) > 0
             THEN Trim(raw.version)
             ELSE Null

readVersionFromTextFile(fs, dir) ==
    LET file == fs[dir].VERSION
    IN  IF file = Null THEN Null
        ELSE IF Len(Trim(file)) > 0 THEN Trim(file) ELSE Null

\* process.env.OWLET_VERSION, else process.env.BIRD_VERSION, else ''
InjectedVersion(env) ==
    IF env.OWLET_VERSION # Null THEN Trim(env.OWLET_VERSION)
    ELSE IF env.BIRD_VERSION # Null THEN Trim(env.BIRD_VERSION)
    ELSE <<>>

VersionOfDir_TextFirst(fs, dir) ==
    LET fromText == readVersionFromTextFile(fs, dir)
    IN  IF fromText # Null THEN fromText ELSE readPackageVersionFromJsonFile(fs, dir)

\* readPackageVersionFromJsonFile(...) ?? readVersionFromTextFile(...)
VersionOfDir(fs, dir) ==
    LET fromJson == readPackageVersionFromJsonFile(fs, dir)
    IN  IF fromJson # Null THEN fromJson ELSE readVersionFromTextFile(fs, dir)

(***************************************************************************)
(* lib/runtime-features.ts: the feature overrides.  A feature map gives    *)
(* every key "true", "false" or "absent"; in a raw JSON value a key may    *)
(* also hold "other", a value that is not a boolean.  The overrides of a   *)
(* set that has no key are the overrides of a set that is not there.       *)
(***************************************************************************)
FeatureKeys == {"a", "b"}

SetNames == {"s"}

EMPTY_MAP == [k \in FeatureKeys |-> "absent"]

EMPTY_OVERRIDES == [global |-> EMPTY_MAP, sets |-> [n \in SetNames |-> EMPTY_MAP]]

\* cachedOverrides = null
NoOverrides == [isNull |-> TRUE, overrides |-> EMPTY_OVERRIDES]

Some(overrides) == [isNull |-> FALSE, overrides |-> overrides]

\* value: [object, map], object FALSE for what is not a plain object
normalizeFeatureMap(value) ==
    IF ~value.object THEN EMPTY_MAP
    ELSE [k \in FeatureKeys |-> IF value.map[k] \in {"true", "false"} THEN value.map[k] ELSE "absent"]

\* value: [object, global, sets], sets being [object, maps]
normalizeOverrides(value) ==
    IF ~value.object THEN EMPTY_OVERRIDES
    ELSE [global |-> normalizeFeatureMap(value.global),
          sets   |-> [n \in SetNames |->
                        IF value.sets.object THEN normalizeFeatureMap(value.sets.maps[n])
                        ELSE EMPTY_MAP]]

\* { ...first, ...second }
Spread(first, second) ==
    [k \in FeatureKeys |-> IF second[k] # "absent" THEN second[k] ELSE first[k]]

\* mergeOverrides keeping the base value of a key both define
mergeOverrides_BaseWins(base, next) ==
    [global |-> Spread(next.global, base.global),
     sets   |-> [n \in SetNames |-> Spread(next.sets[n], base.sets[n])]]

mergeOverrides(base, next) ==
    [global |-> Spread(base.global, next.global),
     sets   |-> [n \in SetNames |-> Spread(base.sets[n], next.sets[n])]]

AsRawMap(map) == [object |-> map # EMPTY_MAP, map |-> map]

\* toFeatureOverrides: global and sets are left out when they have no key,
\* and so is a set that has none
toFeatureOverrides(overrides) ==
    [object |-> TRUE,
     global |-> AsRawMap(overrides.global),
     sets   |-> [object |-> \E n \in SetNames : overrides.sets[n] # EMPTY_MAP,
                 maps   |-> [n \in SetNames |-> AsRawMap(overrides.sets[n])]]]

\* file: [kind |-> "missing" | "invalid" | "json", value]; null when the
\* file is not there or JSON.parse throws
readOverridesFromFile(file) ==
    IF file.kind = "json" THEN Some(normalizeOverrides(file.value)) ELSE NoOverrides

\* env: [kind |-> "unset" | "blank" | "invalid" | "json", value]
readOverridesFromEnv(env) ==
    IF env.kind = "json" THEN Some(normalizeOverrides(env.value)) ELSE NoOverrides

\* `${JSON.stringify(payload, null, 2)}\n`
writeOverridesToDisk(overrides) == [kind |-> "json", value |-> toFeatureOverrides(overrides)]

\* The statements of loadFeatureOverrides that follow the cache test
ReadAndMerge(bundled, file, env) ==
    LET base     == normalizeOverrides(bundled)
        fromFile == readOverridesFromFile(file)
        fromEnv  == readOverridesFromEnv(env)
        merged1  == IF ~fromFile.isNull THEN mergeOverrides(base, fromFile.overrides) ELSE base
    IN  IF ~fromEnv.isNull THEN mergeOverrides(merged1, fromEnv.overrides) ELSE merged1

\* loadFeatureOverrides without the cache test
loadFeatureOverrides_NoMemo(cached, bundled, file, env) ==
    [overrides |-> ReadAndMerge(bundled, file, env), cached |-> Some(ReadAndMerge(bundled, file, env))]

\* loadFeatureOverrides: [overrides, cached], cached being cachedOverrides
\* after the call
loadFeatureOverrides(cached, bundled, file, env) ==
    IF ~cached.isNull THEN [overrides |-> cached.overrides, cached |-> cached]
    ELSE LET merged == ReadAndMerge(bundled, file, env)
         IN  [overrides |-> merged, cached |-> Some(merged)]

\* applyFeatureOverrides on the loaded overrides: same is TRUE when the
\* base object itself is returned
applyFeatureOverrides(overrides, setName, base) ==
    LET globalOverrides == overrides.global
        hasSet          == setName \in SetNames /\ overrides.sets[setName] # EMPTY_MAP
    IN  IF globalOverrides = EMPTY_MAP /\ ~hasSet THEN [map |-> base, same |-> TRUE]
        ELSE IF hasSet
             THEN [map |-> Spread(Spread(base, globalOverrides), overrides.sets[setName]), same |-> FALSE]
             ELSE [map |-> Spread(base, globalOverrides), same |-> FALSE]

\* refreshFeatureOverridesCache writing what the file held and no default
RefreshedOverrides_FileOnly(bundled, file) ==
    IF readOverridesFromFile(file).isNull THEN EMPTY_OVERRIDES ELSE readOverridesFromFile(file).overrides

\* refreshFeatureOverridesCache up to the write: what it writes
RefreshedOverrides(bundled, file) ==
    LET base     == normalizeOverrides(bundled)
        fromFile == readOverridesFromFile(file)
    IN  mergeOverrides(base, IF fromFile.isNull THEN EMPTY_OVERRIDES ELSE fromFile.overrides)

\* A call and what it returned: overrides for a load, snapshot for a
\* snapshot or a refresh, map and same for an apply
FeatureCall(op, setName, base, overrides, snapshot, map, same, threw) ==
    [op |-> op, setName |-> setName, base |-> base, overrides |-> overrides, snapshot |-> snapshot,
     map |-> map, same |-> same, threw |-> threw]

NoFeatureCall ==
    FeatureCall("none", "", EMPTY_MAP, EMPTY_OVERRIDES, toFeatureOverrides(EMPTY_OVERRIDES),
                EMPTY_MAP, FALSE, FALSE)

(***************************************************************************)
(* The values a component's variables hold in the specifications of the    *)
(* other components                                                        *)
(***************************************************************************)
NoTweetOut == [kind |-> "none", result |-> TweetFailure(Null)]

NoNewsOut == [kind |-> "none", success |-> FALSE, items |-> <<>>, error |-> Null]

NoClient == [authToken |-> Null, ct0 |-> Null]

CredIdle ==
    /\ cr_pc = "idle"
    /\ cr_in = [version |-> "none", options |-> CHOOSE o \in OptionValues : TRUE,
                env |-> CHOOSE e \in EnvValues : TRUE, stores |-> NoStores, db |-> NoChromeDb]
    /\ cr_out = NoResult

VersionIdle ==
    /\ vr_pc = "idle"
    /\ vr_in = [env |-> [OWLET_VERSION |-> Null, BIRD_VERSION |-> Null], start |-> 0,
                fs |-> [d \in 0..0 |-> NoFiles]]
    /\ vr_dir = 0
    /\ vr_i = 0
    /\ vr_out = Null

FeaturesIdle ==
    /\ ft_bundled = EMPTY_OVERRIDES
    /\ ft_file = [kind |-> "missing"]
    /\ ft_env = [kind |-> "unset"]
    /\ ft_cached = NoOverrides
    /\ ft_last = NoFeatureCall
    /\ ft_memo = NoOverrides

ExtractIdle ==
    /\ xt_pc = "idle"
    /\ xt_in = <<>>
    /\ xt_out = <<>>

TweetIdle ==
    /\ tw_pc = "idle"
    /\ tw_in = [cookies |-> [authToken |-> Null, ct0 |-> Null, source |-> Null],
                fetch |-> CHOOSE o \in FetchOutcomes : o.kind = "reject" /\ o.message = <<>>,
                call |-> "none"]
    /\ tw_client = NoClient
    /\ tw_out = NoTweetOut

CliIdle ==
    /\ cli_pc = "idle"
    /\ cli_in = [command |-> "none", options |-> [authToken |-> Null, ct0 |-> Null, chromeProfile |-> Null],
                 env |-> CHOOSE e \in EnvValues : TRUE, db |-> NoChromeDb,
                 fetch |-> CHOOSE o \in FetchOutcomes : o.kind = "reject" /\ o.message = <<>>,
                 text |-> <<>>, target |-> <<>>]
    /\ cli_creds = NoResult
    /\ cli_out = <<>>
    /\ cli_exit = Null
    /\ VersionIdle /\ ExtractIdle /\ FeaturesIdle

NoEdition == [ok |-> FALSE, warnings |-> <<>>, error |-> Null, edition |-> Null]

EditionIdle ==
    /\ ed_pc = "idle"
    /\ ed_in = [payload |-> EmptyPayload, stores |-> NoStores, results |-> QuietEnv.results]
    /\ ed_calls = <<>>
    /\ ed_settled = <<>>
    /\ ed_out = NoEdition

ServerIdle ==
    /\ EditionIdle
    /\ sv_pc = "idle"
    /\ sv_req = Request("GET", Null, "empty", EmptyPayload)
    /\ sv_env = QuietEnv
    /\ sv_calls = <<>>
    /\ sv_responses = <<>>
    /\ sv_fatal = FALSE

NewsIdle ==
    /\ nw_pc = "idle"
    /\ nw_in = [count |-> 0, options |-> [tabs |-> Null, aiOnly |-> FALSE, withTweets |-> FALSE,
                                          tweetsPerItem |-> 5]]
    /\ nw_i = 0
    /\ nw_allItems = <<>>
    /\ nw_seenHeadlines = {}
    /\ nw_log = <<>>
    /\ nw_out = NoNewsOut

(***************************************************************************)
(* Specification of the credential resolvers: one call on any input        *)
(***************************************************************************)
CredInit ==
    /\ cr_pc = "ready"
    /\ cr_in \in CredInputs
    /\ cr_out = NoResult
    /\ TweetIdle /\ CliIdle /\ NewsIdle /\ ServerIdle /\ net = <<>>

CallResolveCredentials ==
    /\ cr_pc = "ready"
    /\ cr_in.version = "browsers"
    /\ cr_out' = resolveCredentials(cr_in.options, cr_in.env, cr_in.stores)
    /\ cr_pc' = "done"
    /\ UNCHANGED <<cr_in, tw_vars, cli_vars, nw_vars, net, sv_vars>>

CallResolveCredentialsLegacy ==
    /\ cr_pc = "ready"
    /\ cr_in.version = "chrome"
    /\ cr_out' = resolveCredentialsLegacy(cr_in.options, cr_in.env, cr_in.db)
    /\ cr_pc' = "done"
    /\ UNCHANGED <<cr_in, tw_vars, cli_vars, nw_vars, net, sv_vars>>

CredNext == CallResolveCredentials \/ CallResolveCredentialsLegacy

SpecCred == CredInit /\ [][CredNext]_vars

(***************************************************************************)
(* Specification of the posting client: construct, then one call           *)
(***************************************************************************)
PostInit ==
    /\ tw_pc = "new"
    /\ tw_in \in [cookies : ClientCookies, fetch : FetchOutcomes, call : {"tweet", "reply"}]
    /\ tw_client = NoClient
    /\ tw_out = NoTweetOut
    /\ net = <<>>
    /\ CredIdle /\ CliIdle /\ NewsIdle /\ ServerIdle

\* new TwitterClient({ cookies })
Construct ==
    /\ tw_pc = "new"
    /\ IF ConstructorThrows(tw_in.cookies)
       THEN tw_pc' = "threw" /\ UNCHANGED tw_client
       ELSE /\ tw_pc' = "ready"
            /\ tw_client' = [authToken |-> tw_in.cookies.authToken, ct0 |-> tw_in.cookies.ct0]
    /\ UNCHANGED <<tw_in, tw_out, net, cr_vars, cli_vars, nw_vars, sv_vars>>

\* client.tweet(text) with a second attempt after an unsuccessful one
Tweet_Retry ==
    /\ tw_pc = "ready"
    /\ tw_in.call = "tweet"
    /\ net' = net \o (IF createTweet(tw_in.fetch).result.success
                      THEN <<CreateTweetRequest(tw_client, tweetVariables(<<"Hello world!">>))>>
                      ELSE <<CreateTweetRequest(tw_client, tweetVariables(<<"Hello world!">>)),
                             CreateTweetRequest(tw_client, tweetVariables(<<"Hello world!">>))>>)
    /\ tw_out' = createTweet(tw_in.fetch)
    /\ tw_pc' = "done"
    /\ UNCHANGED <<tw_in, tw_client, cr_vars, cli_vars, nw_vars, sv_vars>>

\* client.tweet(text)
Tweet ==
    /\ tw_pc = "ready"
    /\ tw_in.call = "tweet"
    /\ net' = Append(net, CreateTweetRequest(tw_client, tweetVariables(<<"Hello world!">>)))
    /\ tw_out' = createTweet(tw_in.fetch)
    /\ tw_pc' = "done"
    /\ UNCHANGED <<tw_in, tw_client, cr_vars, cli_vars, nw_vars, sv_vars>>

\* client.reply(text, replyToTweetId)
Reply ==
    /\ tw_pc = "ready"
    /\ tw_in.call = "reply"
    /\ net' = Append(net, CreateTweetRequest(tw_client, replyVariables(<<"Test">>, <<"42">>)))
    /\ tw_out' = createTweet(tw_in.fetch)
    /\ tw_pc' = "done"
    /\ UNCHANGED <<tw_in, tw_client, cr_vars, cli_vars, nw_vars, sv_vars>>

PostNext == Construct \/ Tweet \/ Reply

SpecPost == PostInit /\ [][PostNext]_vars

(***************************************************************************)
(* Specification of the twitter-cli commands: one run of tweet, reply or   *)
(* check                                                                   *)
(***************************************************************************)
CliOptionValues ==
    [authToken : CliAuthValues, ct0 : CliCt0Values, chromeProfile : {Null, <<"Work">>}]

CliEnvValues == {e \in EnvValues : e.TWITTER_AUTH_TOKEN = Null /\ e.TWITTER_CT0 = Null /\ e.CT0 # <<>>
                                    /\ (e.AUTH_TOKEN = Null <=> e.CT0 = Null)}

CliFetchOutcomes ==
    {o \in FetchOutcomes : /\ o.response.errors \in {<<>>, <<<<"Rate limit exceeded">>>>}
                           /\ o.response.rest_id # <<>>
                           /\ o.response.text = <<>> => o.response.ok
                           /\ o.response.json # "null"}

TargetValues ==
    { <<"1234567890">>,
      <<"https://", "x.com", "/", "user", "/", "status", "/", "1234567890">>,
      <<"https://", "twitter.com", "/", "user", "/", "status", "/", "42", "?s=20">> }

CliInputs ==
    { [command |-> "tweet", options |-> o, env |-> e, db |-> db, fetch |-> f, text |-> <<"Hello">>,
       target |-> <<>>] :
        o \in CliOptionValues, e \in CliEnvValues, db \in ChromeDbValues, f \in CliFetchOutcomes }
    \cup
    { [command |-> "reply", options |-> o, env |-> e, db |-> db, fetch |-> f, text |-> <<"Hello">>,
       target |-> t] :
        o \in CliOptionValues, e \in CliEnvValues, db \in {NoChromeDb}, f \in CliFetchOutcomes,
        t \in TargetValues }
    \cup
    { [command |-> "check", options |-> o, env |-> e, db |-> db,
       fetch |-> CHOOSE f \in CliFetchOutcomes : TRUE, text |-> <<>>, target |-> <<>>] :
        o \in CliOptionValues, e \in CliEnvValues, db \in ChromeDbValues }

CliInit ==
    /\ cli_pc = "start"
    /\ cli_in \in CliInputs
    /\ cli_creds = NoResult
    /\ cli_out = <<>>
    /\ cli_exit = Null
    /\ VersionIdle /\ ExtractIdle /\ FeaturesIdle
    /\ CredIdle /\ TweetIdle /\ NewsIdle /\ ServerIdle /\ net = <<>>

\* const { cookies, warnings } = await resolveCredentials({ ... })
CliResolve ==
    /\ cli_pc = "start"
    /\ cli_creds' = resolveCredentialsLegacy(
                        [authToken |-> cli_in.options.authToken, ct0 |-> cli_in.options.ct0,
                         chromeProfile |-> cli_in.options.chromeProfile],
                        cli_in.env, cli_in.db)
    /\ cli_pc' = "resolved"
    /\ UNCHANGED <<vr_vars, xt_vars, ft_vars, cli_in, cli_out, cli_exit, cr_vars, tw_vars, nw_vars, net, sv_vars>>

\* The rest of a tweet or reply action: what is the request's variables
\* and the word printed for it.
CliPost(what, variables, preamble) ==
    LET cookies == cli_creds.cookies
        shown   == WarningLines(cli_creds.warnings)
    IN  IF MissingCredentials(cookies)
        THEN /\ cli_out' = shown \o <<Line("stderr", <<"Missing required credentials">>)>>
             /\ cli_exit' = <<"1">>
             /\ UNCHANGED <<tw_vars, net, sv_vars>>
        ELSE LET client  == [authToken |-> cookies.authToken, ct0 |-> cookies.ct0]
                 out     == createTweet(cli_in.fetch)
                 outcome == PostOutcome(what, out.result)
             IN  /\ tw_client' = client
                 /\ net' = Append(net, CreateTweetRequest(client, variables))
                 /\ tw_out' = out
                 /\ cli_out' = shown \o SourceLines(cookies) \o preamble \o outcome.lines
                 /\ cli_exit' = outcome.exit
                 /\ UNCHANGED <<tw_pc, tw_in>>

\* program.command('tweet').action
CliTweet ==
    /\ cli_pc = "resolved"
    /\ cli_in.command = "tweet"
    /\ CliPost("tweet", tweetVariables(cli_in.text), <<>>)
    /\ cli_pc' = "finished"
    /\ UNCHANGED <<vr_vars, xt_vars, ft_vars, cli_in, cli_creds, cr_vars, nw_vars, sv_vars>>

\* program.command('reply').action
CliReply ==
    /\ cli_pc = "resolved"
    /\ cli_in.command = "reply"
    /\ LET tweetId == extractTweetId(cli_in.target)
       IN  CliPost("reply", replyVariables(cli_in.text, tweetId),
                   <<Line("stderr", <<"Replying to tweet: ">> \o tweetId)>>)
    /\ cli_pc' = "finished"
    /\ UNCHANGED <<vr_vars, xt_vars, ft_vars, cli_in, cli_creds, cr_vars, nw_vars, sv_vars>>

\* program.command('check').action
CliCheck ==
    /\ cli_pc = "resolved"
    /\ cli_in.command = "check"
    /\ LET cookies == cli_creds.cookies
           report  == <<Line("stdout", IF Truthy(cookies.authToken) THEN <<"auth_token: found">>
                                                                    ELSE <<"auth_token: not found">>),
                        Line("stdout", IF Truthy(cookies.ct0) THEN <<"ct0: found">>
                                                              ELSE <<"ct0: not found">>)>>
       IN  /\ cli_out' = report \o (IF Truthy(cookies.source)
                                     THEN <<Line("stdout", <<"Source: ">> \o cookies.source)>> ELSE <<>>)
                                \o (IF MissingCredentials(cookies)
                                     THEN <<Line("stdout", <<"Missing credentials. Options:">>)>>
                                     ELSE <<Line("stdout", <<"Ready to tweet!">>)>>)
           /\ cli_exit' = IF MissingCredentials(cookies) THEN <<"1">> ELSE Null
    /\ cli_pc' = "finished"
    /\ UNCHANGED <<vr_vars, xt_vars, ft_vars, cli_in, cli_creds, cr_vars, tw_vars, nw_vars, net, sv_vars>>

CliNext == CliResolve \/ CliTweet \/ CliReply \/ CliCheck

SpecCli == CliInit /\ [][CliNext]_vars

(***************************************************************************)
(* Specification of getNews: one call, one step per tab of the loop        *)
(***************************************************************************)
NewsInit ==
    /\ nw_pc = "loop"
    /\ nw_in \in NewsInputs
    /\ nw_i = 1
    /\ nw_allItems = <<>>
    /\ nw_seenHeadlines = {}
    /\ nw_log = <<>>
    /\ nw_out = NoNewsOut
    /\ net = <<>>
    /\ CredIdle /\ TweetIdle /\ CliIdle /\ ServerIdle

NewsTabs == TabsOf(nw_in.options)

\* if (!timelineId) continue
NewsSkipTab ==
    /\ nw_pc = "loop"
    /\ nw_i <= Len(NewsTabs)
    /\ NewsTabs[nw_i] \notin KNOWN_TABS
    /\ nw_log' = Append(nw_log, [tab |-> NewsTabs[nw_i], kind |-> "skipped", got |-> 0,
                                  items |-> <<>>])
    /\ nw_i' = nw_i + 1
    /\ UNCHANGED <<nw_pc, nw_in, nw_allItems, nw_seenHeadlines, nw_out, net, cr_vars, tw_vars, cli_vars, sv_vars>>

\* One iteration of the tab loop that fetches: the request, the tab's
\* items, the deduplication and the early stop, or the catch block.
NewsFetchTab ==
    /\ nw_pc = "loop"
    /\ nw_i <= Len(NewsTabs)
    /\ NewsTabs[nw_i] \in KNOWN_TABS
    /\ \E outcome \in TabOutcomes :
          LET tab    == NewsTabs[nw_i]
              res    == fetchTimelineTab(outcome, nw_in.count, nw_in.options.aiOnly)
              merged == Deduplicate(res.items, 1, nw_allItems, nw_seenHeadlines)
          IN  /\ net' = Append(net, TimelineRequest(TIMELINE_IDS[tab], nw_in.count))
              /\ nw_log' = Append(nw_log, [tab |-> tab, kind |-> outcome.kind, got |-> Len(res.items),
                                      items |-> res.items])
              /\ IF res.threw
                 THEN /\ UNCHANGED <<nw_allItems, nw_seenHeadlines>>
                      /\ IF OnTabError = "continue"
                         THEN nw_i' = nw_i + 1 /\ UNCHANGED <<nw_pc, nw_out>>
                         ELSE nw_pc' = "done" /\ nw_out' = NewsThrew /\ UNCHANGED nw_i
                 ELSE /\ nw_allItems' = merged.allItems
                      /\ nw_seenHeadlines' = merged.seenHeadlines
                      /\ UNCHANGED nw_out
                      /\ IF StopEarly(merged.allItems, nw_in.count)
                         THEN nw_pc' = "after" /\ UNCHANGED nw_i
                         ELSE nw_i' = nw_i + 1 /\ UNCHANGED nw_pc
    /\ UNCHANGED <<nw_in, cr_vars, tw_vars, cli_vars, sv_vars>>

\* The loop has run out of tabs.
NewsLoopEnd ==
    /\ nw_pc = "loop"
    /\ nw_i > Len(NewsTabs)
    /\ nw_pc' = "after"
    /\ UNCHANGED <<nw_in, nw_i, nw_allItems, nw_seenHeadlines, nw_log, nw_out, net, cr_vars, tw_vars, cli_vars, sv_vars>>

\* The statements after the loop: the empty check, the slice, and
\* enrichWithTweets, whose search per item either attaches tweets or (an
\* unsuccessful or throwing search) leaves the item as it is.
NewsFinish ==
    /\ nw_pc = "after"
    /\ IF Len(nw_allItems) = 0
       THEN nw_out' = NewsFailure(<<"No news items found">>) /\ UNCHANGED net
       ELSE LET items == SliceCount(nw_allItems, nw_in.count)
            IN  IF nw_in.options.withTweets
                THEN \E enriched \in SUBSET (1..Len(items)) :
                        /\ nw_out' = NewsSuccess([k \in 1..Len(items) |->
                                                    [items[k] EXCEPT !.tweets = (k \in enriched)]])
                        /\ net' = net \o [k \in 1..Len(items) |->
                                            SearchRequest(items[k].headline, nw_in.options.tweetsPerItem)]
                ELSE nw_out' = NewsSuccess(items) /\ UNCHANGED net
    /\ nw_pc' = "done"
    /\ UNCHANGED <<nw_in, nw_i, nw_allItems, nw_seenHeadlines, nw_log, cr_vars, tw_vars, cli_vars, sv_vars>>

NewsNext == NewsSkipTab \/ NewsFetchTab \/ NewsLoopEnd \/ NewsFinish

SpecNews == NewsInit /\ [][NewsNext]_vars

(***************************************************************************)
(* Specification of the web server: one request through the handler        *)
(***************************************************************************)
ServerInit ==
    /\ sv_pc = "received"
    /\ \E i \in ServerInputs : sv_req = i.req /\ sv_env = i.env
    /\ sv_calls = <<>>
    /\ sv_responses = <<>>
    /\ sv_fatal = FALSE
    /\ net = <<>>
    /\ CredIdle /\ TweetIdle /\ CliIdle /\ NewsIdle /\ EditionIdle

IsEditionPost(req) == req.method = "POST" /\ StartsWith(req.url, <<"/", "api", "/", "edition">>)

\* ctx.resolveCredentialsFromOptions for the auth part of a payload
resolveCredentialsFromOptions(auth, stores) ==
    resolveCredentials([authToken |-> auth.authToken, ct0 |-> auth.ct0,
                        cookieSource |-> parseCookieSources(auth.cookieSource),
                        chromeProfile |-> Null, firefoxProfile |-> Null],
                       NoEnv, stores)

\* if (!req.url) { sendText(res, 400, 'Bad request'); return; }
ServerBadRequest ==
    /\ sv_pc = "received"
    /\ sv_req.url = Null
    /\ sv_responses' = Append(sv_responses, TextResponse(400, <<"Bad request">>))
    /\ sv_pc' = "done"
    /\ UNCHANGED <<sv_req, sv_env, sv_calls, sv_fatal, ed_vars, net, cr_vars, tw_vars, cli_vars, nw_vars>>

\* The POST /api/edition branch, through readRequestJson, buildEdition and sendJson.
ServerPostEdition ==
    /\ sv_pc = "received"
    /\ sv_req.url # Null
    /\ IsEditionPost(sv_req)
    /\ IF ReadThrows(sv_req.body)
       THEN /\ sv_responses' = sv_responses \o EditionCatch(<<"Unexpected end of JSON input">>)
            /\ UNCHANGED sv_calls
       ELSE LET payload == IF sv_req.body = "empty" THEN EmptyPayload ELSE sv_req.payload
                creds   == resolveCredentialsFromOptions(payload.auth, sv_env.stores)
                built   == buildEdition(payload, creds, sv_env.results)
            IN  /\ sv_calls' = built.calls
                /\ sv_responses' = sv_responses \o
                      (IF built.threw THEN EditionCatch(built.message)
                       ELSE <<JsonResponse(EditionStatus(built.response), built.response.ok,
                                           built.response.error)>>)
    /\ sv_pc' = "done"
    /\ UNCHANGED <<sv_req, sv_env, sv_fatal, ed_vars, net, cr_vars, tw_vars, cli_vars, nw_vars>>

\* The GET branches: serveStatic, the unknown API endpoint, the index.html fallback.
ServerGet ==
    /\ sv_pc = "received"
    /\ sv_req.url # Null
    /\ sv_req.method = "GET"
    /\ LET static == serveStatic(sv_req.url, sv_env.fs)
       IN  IF static.handled
           THEN sv_responses' = sv_responses \o static.responses /\ sv_fatal' = static.fatal
           ELSE /\ sv_fatal' = FALSE
                /\ sv_responses' = Append(sv_responses,
                      IF StartsWith(sv_req.url, <<"/", "api", "/">>)
                      THEN JsonResponse(404, FALSE, <<"Unknown API endpoint">>)
                      ELSE IF FileKind(sv_env.fs, PUBLIC_DIR \o <<"/", "index.html">>) = "file"
                      THEN [status |-> 200, type |-> "text/html", ok |-> "-", text |-> <<"index.html">>]
                      ELSE TextResponse(404, <<"Not found">>))
    /\ sv_pc' = "done"
    /\ UNCHANGED <<sv_req, sv_env, sv_calls, ed_vars, net, cr_vars, tw_vars, cli_vars, nw_vars>>

\* Any other method, or a POST to another URL: sendText(res, 404, 'Not found')
ServerNotFound ==
    /\ sv_pc = "received"
    /\ sv_req.url # Null
    /\ sv_req.method # "GET"
    /\ ~IsEditionPost(sv_req)
    /\ sv_responses' = Append(sv_responses, TextResponse(404, <<"Not found">>))
    /\ sv_pc' = "done"
    /\ UNCHANGED <<sv_req, sv_env, sv_calls, sv_fatal, ed_vars, net, cr_vars, tw_vars, cli_vars, nw_vars>>

ServerNext == ServerBadRequest \/ ServerPostEdition \/ ServerGet \/ ServerNotFound

SpecServer == ServerInit /\ [][ServerNext]_vars

(***************************************************************************)
(* Specification of resolvePackageVersion: the environment and the files   *)
(* of the start directory and of its ancestors are the inputs, and the     *)
(* loop over the directories runs one iteration at a time                  *)
(***************************************************************************)
MaxDepth == 11

VersionEnvValues ==
    [OWLET_VERSION : {Null, <<" ">>, <<" ", "9.9.9", " ">>}, BIRD_VERSION : {Null, <<"8.8.8">>}]

PackageFiles ==
    { [kind |-> "missing"], [kind |-> "invalid"], [kind |-> "null"],
      [kind |-> "object", versionType |-> "undefined", version |-> Null],
      [kind |-> "object", versionType |-> "number", version |-> <<"1">>],
      [kind |-> "object", versionType |-> "string", version |-> <<" ">>],
      [kind |-> "object", versionType |-> "string", version |-> <<" ", "1.2.3", " ">>] }

\* The trailing newline of a VERSION file is whitespace
VersionFiles == {Null, <<" ">>, <<"2.0.0", " ">>}

\* The package.json of an enclosing project
OuterFiles == [package |-> [kind |-> "object", versionType |-> "string", version |-> <<"0.0.1">>],
               VERSION |-> Null]

\* One directory holds any files, its parent or the root may be the root of
\* an enclosing project, and the remaining directories hold neither file
FileSystems(start) ==
    UNION { { [d \in 0..start |-> IF d = k THEN files ELSE IF d = j THEN OuterFiles ELSE NoFiles] :
                j \in {k, dirname(k), 0},
                files \in [package : PackageFiles, VERSION : VersionFiles] } :
            k \in 0..start }

VersionInit ==
    /\ vr_pc = "called"
    /\ \E start \in 0..MaxDepth :
          vr_in \in [env : VersionEnvValues, start : {start}, fs : FileSystems(start)]
    /\ vr_dir = 0
    /\ vr_i = 0
    /\ vr_out = Null
    /\ ExtractIdle /\ FeaturesIdle
    /\ cli_pc = "idle"
    /\ cli_in = [command |-> "none", options |-> [authToken |-> Null, ct0 |-> Null, chromeProfile |-> Null],
                 env |-> CHOOSE e \in EnvValues : TRUE, db |-> NoChromeDb,
                 fetch |-> CHOOSE o \in FetchOutcomes : o.kind = "reject" /\ o.message = <<>>,
                 text |-> <<>>, target |-> <<>>]
    /\ cli_creds = NoResult
    /\ cli_out = <<>>
    /\ cli_exit = Null
    /\ CredIdle /\ TweetIdle /\ NewsIdle /\ ServerIdle /\ net = <<>>

\* const injected = ...; if (injected.length > 0) return injected;
\* let dir = resolveStartDir(importMetaUrl);
VersionStart ==
    /\ vr_pc = "called"
    /\ LET injected == InjectedVersion(vr_in.env)
       IN  IF Len(injected) > 0
           THEN /\ vr_out' = injected
                /\ vr_pc' = "done"
                /\ UNCHANGED vr_dir
           ELSE /\ vr_dir' = vr_in.start
                /\ vr_pc' = "walking"
                /\ UNCHANGED vr_out
    /\ UNCHANGED <<vr_in, vr_i, xt_vars, ft_vars, cli_pc, cli_in, cli_creds, cli_out, cli_exit,
                   cr_vars, tw_vars, nw_vars, sv_vars, net>>

\* One iteration of the loop
VersionStep ==
    /\ vr_pc = "walking"
    /\ vr_i < WALK_LIMIT
    /\ LET version == VersionOfDir(vr_in.fs, vr_dir)
           parent  == dirname(vr_dir)
       IN  IF Truthy(version)
           THEN /\ vr_out' = version
                /\ vr_pc' = "done"
                /\ UNCHANGED <<vr_dir, vr_i>>
           ELSE IF parent = vr_dir
           THEN /\ vr_out' = FALLBACK_VERSION
                /\ vr_pc' = "done"
                /\ UNCHANGED <<vr_dir, vr_i>>
           ELSE /\ vr_dir' = parent
                /\ vr_i' = vr_i + 1
                /\ UNCHANGED <<vr_pc, vr_out>>
    /\ UNCHANGED <<vr_in, xt_vars, ft_vars, cli_pc, cli_in, cli_creds, cli_out, cli_exit,
                   cr_vars, tw_vars, nw_vars, sv_vars, net>>

\* The loop ends after its last iteration: return FALLBACK_VERSION
VersionFallback ==
    /\ vr_pc = "walking"
    /\ vr_i >= WALK_LIMIT
    /\ vr_out' = FALLBACK_VERSION
    /\ vr_pc' = "done"
    /\ UNCHANGED <<vr_in, vr_dir, vr_i, xt_vars, ft_vars, cli_pc, cli_in, cli_creds, cli_out, cli_exit,
                   cr_vars, tw_vars, nw_vars, sv_vars, net>>

VersionNext == VersionStart \/ VersionStep \/ VersionFallback

\* The call is one synchronous function: nothing can stop it between steps
SpecVersion == VersionInit /\ [][VersionNext]_vars /\ WF_vars(VersionNext)

(***************************************************************************)
(* Specification of extractTweetId: the reply command's target is the      *)
(* input, and the function is applied to it and then to what it returned   *)
(***************************************************************************)
TargetPrefixes == {<<>>, <<"https://">>, <<"https://", "mobile.">>, <<"user">>}

TargetHosts == {"x.com", "twitter.com", "t.co"}

TargetUsers == {<<>>, <<"user">>, <<"user", "42">>, <<"user", "-", "user">>, <<"i", "/", "web">>}

TargetSegments == {"status", "statuses"}

TargetTails ==
    { <<>>, <<"1234567890">>, <<"42", "1234567890">>, <<"42", "?s=20">>, <<"42", "user">>,
      <<"user">>, <<"42", "/", "user", "/", "1234567890">> }

TargetUrls ==
    { prefix \o <<host, "/">> \o user \o <<"/", segment, "/">> \o tail :
        prefix \in TargetPrefixes, host \in TargetHosts, user \in TargetUsers,
        segment \in TargetSegments, tail \in TargetTails }

ExtractInputs ==
    TargetValues \cup TargetUrls
    \cup { <<>>, <<"42", "1234567890">>, <<"user">>,
           <<"https://", "t.co", "/", "user", "/", "status", "/", "42", " ",
             "https://", "x.com", "/", "user", "/", "status", "/", "1234567890">>,
           <<"https://", "x.com", "/", "user", "/", "status", "/", "42", " ",
             "https://", "twitter.com", "/", "user", "/", "status", "/", "1234567890">> }

ExtractInit ==
    /\ xt_pc = "called"
    /\ xt_in \in ExtractInputs
    /\ xt_out = <<>>
    /\ VersionIdle /\ FeaturesIdle
    /\ cli_pc = "idle"
    /\ cli_in = [command |-> "none", options |-> [authToken |-> Null, ct0 |-> Null, chromeProfile |-> Null],
                 env |-> CHOOSE e \in EnvValues : TRUE, db |-> NoChromeDb,
                 fetch |-> CHOOSE o \in FetchOutcomes : o.kind = "reject" /\ o.message = <<>>,
                 text |-> <<>>, target |-> <<>>]
    /\ cli_creds = NoResult
    /\ cli_out = <<>>
    /\ cli_exit = Null
    /\ CredIdle /\ TweetIdle /\ NewsIdle /\ ServerIdle /\ net = <<>>

\* const tweetId = extractTweetId(tweetIdOrUrl)
ExtractCall ==
    /\ xt_pc = "called"
    /\ xt_out' = <<extractTweetId(xt_in)>>
    /\ xt_pc' = "once"
    /\ UNCHANGED <<xt_in, vr_vars, ft_vars, cli_pc, cli_in, cli_creds, cli_out, cli_exit,
                   cr_vars, tw_vars, nw_vars, sv_vars, net>>

\* extractTweetId(tweetId): the function applied to its own result
ExtractAgain ==
    /\ xt_pc = "once"
    /\ xt_out' = Append(xt_out, extractTweetId(xt_out[1]))
    /\ xt_pc' = "twice"
    /\ UNCHANGED <<xt_in, vr_vars, ft_vars, cli_pc, cli_in, cli_creds, cli_out, cli_exit,
                   cr_vars, tw_vars, nw_vars, sv_vars, net>>

ExtractNext == ExtractCall \/ ExtractAgain

SpecExtract == ExtractInit /\ [][ExtractNext]_vars

(***************************************************************************)
(* Specification of the feature overrides: the module's functions are      *)
(* called in any order, and between calls the cache file and the           *)
(* environment JSON may be changed from outside                            *)
(***************************************************************************)
RawMap(a, b) == [object |-> TRUE, map |-> [k \in FeatureKeys |-> IF k = "a" THEN a ELSE b]]

NotAMap == [object |-> FALSE, map |-> EMPTY_MAP]

RawOverrides(global, set) ==
    [object |-> TRUE, global |-> global, sets |-> [object |-> TRUE, maps |-> [n \in SetNames |-> set]]]

NotOverrides ==
    [object |-> FALSE, global |-> NotAMap, sets |-> [object |-> FALSE, maps |-> [n \in SetNames |-> NotAMap]]]

FeatureObjects ==
    { RawOverrides(RawMap("true", "absent"), RawMap("absent", "true")),
      RawOverrides(RawMap("false", "other"), RawMap("true", "absent")),
      RawOverrides(NotAMap, RawMap("other", "false")),
      NotOverrides }

BundledValues ==
    { RawOverrides(RawMap("absent", "absent"), RawMap("absent", "absent")),
      RawOverrides(RawMap("true", "true"), RawMap("false", "absent")) }

CacheFileValues ==
    {[kind |-> "missing"], [kind |-> "invalid"]} \cup {[kind |-> "json", value |-> o] : o \in FeatureObjects}

EnvJsonValues ==
    {[kind |-> "unset"], [kind |-> "blank"], [kind |-> "invalid"]}
    \cup {[kind |-> "json", value |-> o] : o \in FeatureObjects}

BaseMaps == {EMPTY_MAP, RawMap("true", "absent").map, RawMap("false", "true").map}

FeaturesInit ==
    /\ ft_bundled \in BundledValues
    /\ ft_file \in CacheFileValues
    /\ ft_env \in EnvJsonValues
    /\ ft_cached = NoOverrides
    /\ ft_last = NoFeatureCall
    /\ ft_memo = NoOverrides
    /\ VersionIdle /\ ExtractIdle
    /\ cli_pc = "idle"
    /\ cli_in = [command |-> "none", options |-> [authToken |-> Null, ct0 |-> Null, chromeProfile |-> Null],
                 env |-> CHOOSE e \in EnvValues : TRUE, db |-> NoChromeDb,
                 fetch |-> CHOOSE o \in FetchOutcomes : o.kind = "reject" /\ o.message = <<>>,
                 text |-> <<>>, target |-> <<>>]
    /\ cli_creds = NoResult
    /\ cli_out = <<>>
    /\ cli_exit = Null
    /\ CredIdle /\ TweetIdle /\ NewsIdle /\ ServerIdle /\ net = <<>>

\* What a call that loads leaves in ft_memo: the overrides of the first load
\* since the module started or since the cache was last dropped
Remember(overrides) == IF ft_memo.isNull THEN Some(overrides) ELSE ft_memo

OutsideFeatures ==
    <<vr_vars, xt_vars, cli_pc, cli_in, cli_creds, cli_out, cli_exit, cr_vars, tw_vars, nw_vars, sv_vars, net>>

\* loadFeatureOverrides()
FtLoad ==
    /\ LET loaded == loadFeatureOverrides(ft_cached, ft_bundled, ft_file, ft_env)
       IN  /\ ft_cached' = loaded.cached
           /\ ft_last' = FeatureCall("load", "", EMPTY_MAP, loaded.overrides,
                                     toFeatureOverrides(EMPTY_OVERRIDES), EMPTY_MAP, FALSE, FALSE)
           /\ ft_memo' = Remember(loaded.overrides)
    /\ UNCHANGED <<ft_bundled, ft_file, ft_env, OutsideFeatures>>

\* getFeatureOverridesSnapshot()
FtSnapshot ==
    /\ LET loaded == loadFeatureOverrides(ft_cached, ft_bundled, ft_file, ft_env)
       IN  /\ ft_cached' = loaded.cached
           /\ ft_last' = FeatureCall("snapshot", "", EMPTY_MAP, loaded.overrides,
                                     toFeatureOverrides(loaded.overrides), EMPTY_MAP, FALSE, FALSE)
           /\ ft_memo' = Remember(loaded.overrides)
    /\ UNCHANGED <<ft_bundled, ft_file, ft_env, OutsideFeatures>>

\* applyFeatureOverrides(setName, base)
FtApply ==
    /\ \E setName \in {"s", "t"}, base \in BaseMaps :
          LET loaded  == loadFeatureOverrides(ft_cached, ft_bundled, ft_file, ft_env)
              applied == applyFeatureOverrides(loaded.overrides, setName, base)
          IN  /\ ft_cached' = loaded.cached
              /\ ft_last' = FeatureCall("apply", setName, base, loaded.overrides,
                                        toFeatureOverrides(EMPTY_OVERRIDES), applied.map,
                                        applied.same, FALSE)
              /\ ft_memo' = Remember(loaded.overrides)
    /\ UNCHANGED <<ft_bundled, ft_file, ft_env, OutsideFeatures>>

\* refreshFeatureOverridesCache(): the write succeeds, or mkdir or writeFile
\* rejects and the statements after the await are not run
FtRefresh ==
    /\ LET merged == RefreshedOverrides(ft_bundled, ft_file)
       IN  \E written \in BOOLEAN :
              IF written
              THEN /\ ft_file' = writeOverridesToDisk(merged)
                   /\ ft_cached' = NoOverrides
                   /\ ft_last' = FeatureCall("refresh", "", EMPTY_MAP, merged, toFeatureOverrides(merged),
                                             EMPTY_MAP, FALSE, FALSE)
                   /\ ft_memo' = NoOverrides
              ELSE /\ ft_last' = FeatureCall("refresh", "", EMPTY_MAP, EMPTY_OVERRIDES,
                                             toFeatureOverrides(EMPTY_OVERRIDES), EMPTY_MAP, FALSE, TRUE)
                   /\ UNCHANGED <<ft_file, ft_cached, ft_memo>>
    /\ UNCHANGED <<ft_bundled, ft_env, OutsideFeatures>>

\* clearFeatureOverridesCache()
FtClear ==
    /\ ft_cached' = NoOverrides
    /\ ft_last' = FeatureCall("clear", "", EMPTY_MAP, EMPTY_OVERRIDES, toFeatureOverrides(EMPTY_OVERRIDES),
                              EMPTY_MAP, FALSE, FALSE)
    /\ ft_memo' = NoOverrides
    /\ UNCHANGED <<ft_bundled, ft_file, ft_env, OutsideFeatures>>

\* Somebody else rewrites or removes the cache file
FtEditFile ==
    /\ ft_file' \in CacheFileValues \ {ft_file}
    /\ ft_last' = [ft_last EXCEPT !.op = "none"]
    /\ UNCHANGED <<ft_bundled, ft_env, ft_cached, ft_memo, OutsideFeatures>>

\* OWLET_FEATURES_JSON is set to something else
FtSetEnv ==
    /\ ft_env' \in EnvJsonValues \ {ft_env}
    /\ ft_last' = [ft_last EXCEPT !.op = "none"]
    /\ UNCHANGED <<ft_bundled, ft_file, ft_cached, ft_memo, OutsideFeatures>>

FeaturesNext == FtLoad \/ FtSnapshot \/ FtApply \/ FtRefresh \/ FtClear \/ FtEditFile \/ FtSetEnv

SpecFeatures == FeaturesInit /\ [][FeaturesNext]_vars

(***************************************************************************)
(* Specification of buildEdition, promise by promise: the credentials are  *)
(* resolved, the requests are started, settle one at a time in any order,  *)
(* and the edition is made of what Promise.all delivers                    *)
(***************************************************************************)
EditionPayloads == {p \in PayloadValues : ~p.isNull}

EditionInit ==
    /\ ed_pc = "called"
    /\ ed_in \in [payload : EditionPayloads, stores : {NoStores, SafariStores}, results : ResultValues]
    /\ ed_calls = <<>>
    /\ ed_settled = <<>>
    /\ ed_out = NoEdition
    /\ sv_pc = "idle"
    /\ sv_req = Request("GET", Null, "empty", EmptyPayload)
    /\ sv_env = QuietEnv
    /\ sv_calls = <<>>
    /\ sv_responses = <<>>
    /\ sv_fatal = FALSE
    /\ net = <<>>
    /\ CredIdle /\ TweetIdle /\ CliIdle /\ NewsIdle

\* The credentials buildEdition resolves.
EditionCredentials == resolveCredentialsFromOptions(ed_in.payload.auth, ed_in.stores)

\* The statements up to Promise.all: without both credentials buildEdition
\* returns; with them every request is started, and the promises of the
\* requests not made are resolved already.
EditionStart ==
    /\ ed_pc = "called"
    /\ IF MissingCredentials(EditionCredentials.cookies)
       THEN /\ ed_out' = buildEdition(ed_in.payload, EditionCredentials, ed_in.results).response
            /\ ed_pc' = "done"
            /\ UNCHANGED <<ed_calls, ed_settled>>
       ELSE /\ ed_calls' = EditionCalls(ed_in.payload)
            /\ ed_settled' = SelectSeq(POSITIONS,
                                 LAMBDA slot : ~CallStarted(EditionCalls(ed_in.payload), slot))
            /\ ed_pc' = "awaiting"
            /\ UNCHANGED ed_out
    /\ UNCHANGED <<ed_in, sv_pc, sv_req, sv_env, sv_calls, sv_responses, sv_fatal,
                   net, cr_vars, tw_vars, cli_vars, nw_vars>>

\* One of the requests in flight settles.
EditionSettle ==
    /\ ed_pc = "awaiting"
    /\ \E slot \in Range(POSITIONS) \ Range(ed_settled) :
          ed_settled' = Append(ed_settled, slot)
    /\ UNCHANGED <<ed_pc, ed_in, ed_calls, ed_out, sv_pc, sv_req, sv_env, sv_calls, sv_responses,
                   sv_fatal, net, cr_vars, tw_vars, cli_vars, nw_vars>>

\* Promise.all fulfils and buildEdition returns.
EditionReturn ==
    /\ ed_pc = "awaiting"
    /\ Len(ed_settled) = Len(POSITIONS)
    /\ ed_out' = EditionOfResults(ed_in.payload, EditionCredentials, ed_calls,
                     Destructure(PromiseAll(ed_calls, ed_in.results, ed_settled)))
    /\ ed_pc' = "done"
    /\ UNCHANGED <<ed_in, ed_calls, ed_settled, sv_pc, sv_req, sv_env, sv_calls, sv_responses,
                   sv_fatal, net, cr_vars, tw_vars, cli_vars, nw_vars>>

EditionNext == EditionStart \/ EditionSettle \/ EditionReturn

SpecEdition == EditionInit /\ [][EditionNext]_vars

(***************************************************************************)
(* Specification of buildEdition over the counts of the payload: the       *)
(* credentials are given, every section is asked for, and each count is    *)
(* missing, not a finite number, negative, fractional, small or huge       *)
(***************************************************************************)
CountValues ==
    {Undefined, NotFinite, AndAHalf(-1), Num(3), AndAHalf(4), Num(35), Num(1000)}

CountPayloads ==
    { Payload(FALSE, <<"ai">>,
              NewsPart(newsCount, <<"news", "trending">>, "undefined", "undefined", "undefined",
                       tweetsPerItem),
              deskCount, "undefined", deskCount,
              [authToken |-> <<"a">>, ct0 |-> <<"c">>, cookieSource |-> Null]) :
        newsCount \in CountValues, tweetsPerItem \in CountValues, deskCount \in CountValues }

CountsInit ==
    /\ ed_pc = "called"
    /\ ed_in \in [payload : CountPayloads, stores : {NoStores}, results : {QuietEnv.results}]
    /\ ed_calls = <<>>
    /\ ed_settled = <<>>
    /\ ed_out = NoEdition
    /\ sv_pc = "idle"
    /\ sv_req = Request("GET", Null, "empty", EmptyPayload)
    /\ sv_env = QuietEnv
    /\ sv_calls = <<>>
    /\ sv_responses = <<>>
    /\ sv_fatal = FALSE
    /\ net = <<>>
    /\ CredIdle /\ TweetIdle /\ CliIdle /\ NewsIdle

SpecCounts == CountsInit /\ [][EditionNext]_vars

(***************************************************************************)
(* Specification of buildEdition over the tab lists a payload can carry:   *)
(* none, empty, unknown names only, trending alone or repeated, trending   *)
(* among others, known and unknown names mixed; with the trending switch   *)
(* unset, on or off                                                        *)
(***************************************************************************)
TabLists ==
    { Null, <<>>, <<"bogus">>, <<"trending">>, <<"trending", "trending">>,
      <<"news", "trending">>, <<"sports", "bogus", "forYou", "sports">> }

TabPayloads ==
    { Payload(FALSE, Null, NewsPart(Undefined, tabs, includeTrending, "undefined", "undefined", Undefined),
              Undefined, "false", Undefined,
              [authToken |-> <<"a">>, ct0 |-> <<"c">>, cookieSource |-> Null]) :
        tabs \in TabLists, includeTrending \in {"undefined", "true", "false"} }

TabsInit ==
    /\ ed_pc = "called"
    /\ ed_in \in [payload : TabPayloads, stores : {NoStores},
                  results : {r \in ResultValues : r.topic.success /\ r.hiring.success /\ r.seeking.success}]
    /\ ed_calls = <<>>
    /\ ed_settled = <<>>
    /\ ed_out = NoEdition
    /\ sv_pc = "idle"
    /\ sv_req = Request("GET", Null, "empty", EmptyPayload)
    /\ sv_env = QuietEnv
    /\ sv_calls = <<>>
    /\ sv_responses = <<>>
    /\ sv_fatal = FALSE
    /\ net = <<>>
    /\ CredIdle /\ TweetIdle /\ CliIdle /\ NewsIdle

SpecTabs == TabsInit /\ [][EditionNext]_vars

(***************************************************************************)
(* Claims about the credential resolvers                                   *)
(***************************************************************************)
CliSupplies(field) == Truthy(cr_in.options[field])

EnvKeys(field) == IF field = "authToken" THEN ENV_AUTH_KEYS ELSE ENV_CT0_KEYS

EnvSupplies(field) == FirstEnvHit(cr_in.env, EnvKeys(field)) # 0

EnvSupplied(field) == normalizeValue(cr_in.env[EnvKeys(field)[FirstEnvHit(cr_in.env, EnvKeys(field))]])

\* C1: for each of the two tokens, a non-empty CLI argument is the value
\* returned, and failing that a non-blank environment variable is, whatever
\* the browser cookie stores hold.
C1_Precedence ==
    cr_pc = "done" =>
        \A field \in {"authToken", "ct0"} :
            /\ CliSupplies(field) => cr_out.cookies[field] = cr_in.options[field]
            /\ (~CliSupplies(field) /\ EnvSupplies(field)) => cr_out.cookies[field] = EnvSupplied(field)

BrowserSupplies ==
    \/ \E s \in {"safari", "chrome", "firefox"} : cr_in.stores[s].cookies # <<>>
    \/ \E i \in 1..Len(cr_in.db.rows) : Truthy(cr_in.db.rows[i].value)

NothingSupplies ==
    /\ \A field \in {"authToken", "ct0"} : ~CliSupplies(field) /\ ~EnvSupplies(field)
    /\ ~BrowserSupplies

HasWarning(ws) == \E i \in 1..Len(cr_out.warnings) : cr_out.warnings[i] \in ws

\* C4: a 'Missing auth_token' ('Missing ct0') warning is returned exactly
\* when authToken (ct0) is returned as null, and when no source supplies
\* anything both tokens are null (so both warnings are present).
C4_MissingWarnings ==
    cr_pc = "done" =>
        /\ cr_out.cookies.authToken = Null <=> HasWarning({MISSING_AUTH_TOKEN, LEGACY_MISSING_AUTH_TOKEN})
        /\ cr_out.cookies.ct0 = Null <=> HasWarning({MISSING_CT0, LEGACY_MISSING_CT0})
        /\ NothingSupplies => cr_out.cookies.authToken = Null /\ cr_out.cookies.ct0 = Null

C4_Witness ==
    /\ cr_pc = "done"
    /\ NothingSupplies
    /\ cr_in.version = "browsers"
    /\ HasWarning({MISSING_AUTH_TOKEN})
    /\ HasWarning({MISSING_CT0})
    /\ cr_out.cookies.authToken = Null

(***************************************************************************)
(* Claims about the posting client and the twitter-cli commands            *)
(***************************************************************************)
WRITE_OPERATIONS == {"CreateTweet", "CreateRetweet", "FavoriteTweet"}

\* C2: every request sent to X is a read: no request is a POST or names a
\* mutating GraphQL operation, and the server calls only getNews and search.
C2_ReadOnly ==
    /\ \A i \in 1..Len(net) : net[i].method = "GET" /\ net[i].op \notin WRITE_OPERATIONS
    /\ \A i \in 1..Len(sv_calls) : sv_calls[i].call \in {"getNews", "search"}

\* The response is OK, its body has no errors entries and holds a rest_id.
OkWithId(outcome) ==
    /\ outcome.kind = "response"
    /\ outcome.response.ok
    /\ outcome.response.json = "object"
    /\ Len(outcome.response.errors) = 0
    /\ Truthy(outcome.response.rest_id)

\* C3 as stated: tweet/reply never throw; success:true with the tweetId
\* exactly when the response is OK with no errors and a rest_id; otherwise
\* success:false with a non-empty error string and no tweetId.
C3_TaggedResult ==
    tw_pc = "done" =>
        /\ tw_out.kind = "returned"
        /\ tw_out.result.success <=> OkWithId(tw_in.fetch)
        /\ tw_out.result.success =>
              tw_out.result.tweetId = tw_in.fetch.response.rest_id /\ tw_out.result.error = Null
        /\ ~tw_out.result.success =>
              tw_out.result.tweetId = Null /\ Truthy(tw_out.result.error)

\* The message the error string is copied from is empty: a rejection with
\* an empty message, or a single API error with an empty message.
EmptyUpstreamMessage(outcome) ==
    \/ outcome.kind = "reject" /\ outcome.message = <<>>
    \/ /\ outcome.kind = "response" /\ outcome.response.ok /\ outcome.response.json = "object"
       /\ outcome.response.errors = << <<>> >>

\* C3 amended: as C3, except that the error string of a failure is a string
\* that is non-empty unless the upstream message it is copied from is empty.
C3_Amended ==
    tw_pc = "done" =>
        /\ tw_out.kind = "returned"
        /\ tw_out.result.success <=> OkWithId(tw_in.fetch)
        /\ tw_out.result.success =>
              tw_out.result.tweetId = tw_in.fetch.response.rest_id /\ tw_out.result.error = Null
        /\ ~tw_out.result.success =>
              /\ tw_out.result.tweetId = Null
              /\ tw_out.result.error # Null
              /\ tw_out.result.error = <<>> => EmptyUpstreamMessage(tw_in.fetch)

C3_Witness ==
    /\ tw_pc = "done"
    /\ tw_in.fetch.kind = "reject"
    /\ tw_out.kind = "returned"
    /\ ~tw_out.result.success
    /\ tw_out.result.error = <<"Network error">>

(***************************************************************************)
(* Claims about the web server                                             *)
(***************************************************************************)
\* The payload buildEdition is given for the request.
PayloadOf(req) == IF req.body = "empty" THEN EmptyPayload ELSE req.payload

\* Reading the body or building the edition throws.
EditionThrows(req) == req.body \in {"invalid", "aborted"} \/ PayloadOf(req).isNull

\* Both tokens are in the payload, or the default browsers are searched and
\* Safari holds both cookies.
EditionHasCredentials(req, env) ==
    \/ Truthy(PayloadOf(req).auth.authToken) /\ Truthy(PayloadOf(req).auth.ct0)
    \/ PayloadOf(req).auth.cookieSource = Null /\ env.stores = SafariStores

\* C5: POST /api/edition sends one JSON response: 500 with ok:false and an
\* error message when reading the body or building the edition throws,
\* 400 with ok:false when credentials are missing or the news fetch failed,
\* and 200 with ok:true otherwise.
C5_EditionStatus ==
    (sv_pc = "done" /\ IsEditionPost(sv_req)) =>
        /\ Len(sv_responses) = 1
        /\ sv_responses[1].type = "application/json"
        /\ LET r == sv_responses[1]
               built == ~EditionThrows(sv_req) /\ EditionHasCredentials(sv_req, sv_env)
                        /\ sv_env.results.news.success
           IN  /\ r.status \in {200, 400, 500}
               /\ r.status = 500 <=> EditionThrows(sv_req)
               /\ r.status = 200 <=> built
               /\ r.ok = "true" <=> r.status = 200
               /\ r.status = 500 => r.text # Null

C5_Witness ==
    /\ sv_pc = "done"
    /\ IsEditionPost(sv_req)
    /\ ~EditionThrows(sv_req)
    /\ ~EditionHasCredentials(sv_req, sv_env)
    /\ sv_responses[1].status = 400

\* C6: every request is answered exactly once and none ends in an uncaught
\* exception or unhandled rejection.
C6_AnsweredNotFatal ==
    sv_pc = "done" => ~sv_fatal /\ Len(sv_responses) = 1

(***************************************************************************)
(* Claims about getNews                                                    *)
(***************************************************************************)
\* C7: the headlines of the items getNews returns are pairwise distinct.
C7_DistinctHeadlines ==
    (nw_pc = "done" /\ nw_out.success) =>
        \A i, j \in 1..Len(nw_out.items) :
            i # j => nw_out.items[i].headline # nw_out.items[j].headline

RECURSIVE SumGot(_)
SumGot(log) == IF log = <<>> THEN 0 ELSE Head(log).got + SumGot(Tail(log))

\* A headline a later tab repeated was dropped.
C7_Witness ==
    /\ nw_pc = "done"
    /\ nw_out.success
    /\ Len(nw_out.items) >= 2
    /\ SumGot(nw_log) > Len(nw_allItems)

\* C8: a successful getNews(count) returns at least one and at most count items.
C8_CountRespected ==
    (nw_pc = "done" /\ nw_out.success) =>
        Len(nw_out.items) >= 1 /\ Len(nw_out.items) <= nw_in.count

\* More unique items than count were collected and the result was cut.
C8_Witness ==
    /\ nw_pc = "done"
    /\ nw_out.success
    /\ Len(nw_allItems) > nw_in.count
    /\ Len(nw_out.items) = nw_in.count

\* The tab set of the call, and those of its tabs that have a timeline id.
ClaimedTabs ==
    IF nw_in.options.tabs = Null THEN <<"forYou", "news", "sports", "entertainment">>
    ELSE nw_in.options.tabs

ClaimedKnownTabs == FilterSeq(ClaimedTabs, KNOWN_TABS)

TimelineRequests == SelectSeq(net, LAMBDA r : r.op = "GenericTimelineById")

FAILURE_KINDS == {"reject", "http", "errors"}

\* C10: a tab whose request fails adds no item and the loop goes on to the
\* next tab; getNews never throws, and it returns success:false with
\* 'No news items found' exactly when no tab yielded an item.
C10_FailedTabs ==
    /\ [](nw_pc = "done" =>
            /\ nw_out.kind = "returned"
            /\ (~nw_out.success /\ nw_out.error = <<"No news items found">>)
                  <=> (\A k \in 1..Len(nw_log) : nw_log[k].got = 0)
            /\ nw_out.success <=> (\E k \in 1..Len(nw_log) : nw_log[k].got > 0))
    /\ [][(Len(nw_log') = Len(nw_log) + 1 /\ nw_log'[Len(nw_log')].kind \in FAILURE_KINDS) =>
            /\ nw_allItems' = nw_allItems
            /\ nw_log'[Len(nw_log')].got = 0
            /\ nw_pc' = "loop"
            /\ nw_i' = nw_i + 1]_vars

\* A tab failed, a later tab was still requested and yielded the items.
C10_Witness ==
    /\ nw_pc = "done"
    /\ nw_out.success
    /\ \E k \in 1..Len(nw_log) : \E m \in 1..Len(nw_log) :
          k < m /\ nw_log[k].kind \in FAILURE_KINDS /\ nw_log[m].got > 0

(***************************************************************************)
(* Specification of one call that may be retried: one tweet or reply of    *)
(* the posting client, or one getNews                                      *)
(***************************************************************************)
RetryInit == PostInit \/ NewsInit

RetryNext == PostNext \/ NewsNext

SpecRetry == RetryInit /\ [][RetryNext]_vars

\* The positions of net holding a timeline request for tab.
RequestsOfTab(tab) ==
    {i \in 1..Len(net) : net[i].op = "GenericTimelineById"
                          /\ net[i].variables.timelineId = TIMELINE_IDS[tab]}

\* C11: a tweet or reply that has returned sent exactly one request, a
\* CreateTweet, whether it succeeded or failed; getNews sends at most one
\* timeline request per tab and never more requests than tabs handled.
C11_NoRetry ==
    /\ tw_pc = "done" => Len(net) = 1 /\ net[1].op = "CreateTweet"
    /\ tw_pc \in {"new", "ready", "threw"} => net = <<>>
    /\ nw_pc # "idle" =>
          /\ \A tab \in KNOWN_TABS : Cardinality(RequestsOfTab(tab)) <= 1
          /\ Len(TimelineRequests) = Len(SelectSeq(nw_log, LAMBDA e : e.kind # "skipped"))
          /\ Len(nw_log) <= Len(NewsTabs)

\* A tab failed and getNews went on to request another tab, once each.
C11_Witness ==
    /\ nw_pc = "done"
    /\ Len(TimelineRequests) >= 2
    /\ nw_log[1].kind \in FAILURE_KINDS
    /\ RequestsOfTab(nw_log[1].tab) = {1}

(***************************************************************************)
(* Claims about the requests of buildEdition                               *)
(***************************************************************************)
\* What a section shows of the request of slot: its items when the request
\* was made and succeeded.
OwnItems(slot) ==
    IF CallStarted(ed_calls, slot) /\ ed_in.results[slot].success
    THEN ed_in.results[slot].items ELSE <<>>

CliCredentialMissing ==
    \/ cli_creds.cookies.authToken \in {Null, <<>>}
    \/ cli_creds.cookies.ct0 \in {Null, <<>>}

LastLine == cli_out[Len(cli_out)]

\* C13: tweet and reply exit with code 1, the last thing printed being a
\* message on stderr, exactly when a credential is missing or the API
\* result is a failure; otherwise they print the status URL last and do not
\* call exit.  check exits with code 1 exactly when a credential is missing.
C13_ExitCodes ==
    cli_pc = "finished" =>
        /\ cli_exit \in {Null, <<"1">>}
        /\ cli_in.command \in {"tweet", "reply"} =>
              /\ cli_exit = <<"1">> <=> (CliCredentialMissing \/ ~OkWithId(cli_in.fetch))
              /\ cli_exit = <<"1">> => Len(cli_out) > 0 /\ LastLine.stream = "stderr"
              /\ cli_exit = Null =>
                    LastLine = Line("stdout", <<"https://x.com/i/status/">> \o cli_in.fetch.response.rest_id)
        /\ cli_in.command = "check" => (cli_exit = <<"1">> <=> CliCredentialMissing)

\* Credentials were resolved and the API answered with a failure.
C13_Witness ==
    /\ cli_pc = "finished"
    /\ cli_in.command = "reply"
    /\ ~CliCredentialMissing
    /\ ~OkWithId(cli_in.fetch)
    /\ cli_exit = <<"1">>
    /\ Len(net) = 1

(***************************************************************************)
(* Specification of the two callers that test the credentials: one run of  *)
(* a twitter-cli command, or one buildEdition                              *)
(***************************************************************************)
GateInit == CliInit \/ EditionInit

GateNext == CliNext \/ EditionNext

SpecGate == GateInit /\ [][GateNext]_vars

\* The resolver of buildEdition left authToken or ct0 null or empty.
EditionCredentialMissing ==
    \/ EditionCredentials.cookies.authToken \in {Null, <<>>}
    \/ EditionCredentials.cookies.ct0 \in {Null, <<>>}

\* C14: with authToken or ct0 unresolved no request is sent: a CLI command
\* ends with exit code 1 and no client, and buildEdition returns ok:false
\* with the resolver's warnings and the 'Missing required credentials'
\* error, having called neither getNews nor search.
C14_NoRequestWithoutCredentials ==
    /\ (cli_pc \in {"resolved", "finished"} /\ CliCredentialMissing) =>
          /\ net = <<>>
          /\ tw_client = NoClient
          /\ cli_pc = "finished" => cli_exit = <<"1">>
    /\ (ed_pc # "idle" /\ EditionCredentialMissing) =>
          /\ net = <<>>
          /\ ed_calls = <<>>
          /\ ed_pc \in {"called", "done"}
          /\ ed_pc = "done" =>
                /\ ~ed_out.ok
                /\ ed_out.edition = Null
                /\ ed_out.warnings = EditionCredentials.warnings
                /\ ed_out.error = <<"Missing required credentials. Provide auth_token/ct0 or login to x.com in a supported browser.">>

\* buildEdition returned for a payload that has an auth token and no ct0.
C14_Witness ==
    /\ ed_pc = "done"
    /\ Truthy(ed_in.payload.auth.authToken)
    /\ EditionCredentialMissing
    /\ ed_out.warnings # <<>>
    /\ ed_calls = <<>>

(***************************************************************************)
(* Claims about the construction of the posting client                     *)
(***************************************************************************)
\* C15: the constructor throws exactly when authToken or ct0 is null or
\* empty and then nothing is sent; a constructed client holds both values,
\* and every request it sends has a cookie header made of both and an
\* x-csrf-token header equal to ct0.
C15_BothCookies ==
    LET missing == tw_in.cookies.authToken \in {Null, <<>>} \/ tw_in.cookies.ct0 \in {Null, <<>>}
    IN  /\ tw_pc \in {"ready", "done", "threw"} => (tw_pc = "threw" <=> missing)
        /\ tw_pc = "threw" => net = <<>> /\ tw_client = NoClient
        /\ tw_pc \in {"ready", "done"} =>
              /\ tw_client.authToken = tw_in.cookies.authToken
              /\ tw_client.ct0 = tw_in.cookies.ct0
              /\ \A i \in 1..Len(net) :
                    /\ net[i].headers.cookie =
                          <<"auth_token=">> \o tw_in.cookies.authToken \o <<"; ct0=">> \o tw_in.cookies.ct0
                    /\ net[i].headers.csrf = tw_in.cookies.ct0
                    /\ net[i].headers.csrf \notin {Null, <<>>}

C15_Witness ==
    /\ tw_pc = "done"
    /\ Len(net) = 1
    /\ net[1].headers.cookie = <<"auth_token=", "test_auth_token", "; ct0=", "test_ct0_token">>

(***************************************************************************)
(* Claims about the environment variables                                  *)
(***************************************************************************)
\* Unset, empty or made of whitespace only.
Blank(value) == value = Null \/ \A i \in 1..Len(value) : value[i] = " "

\* The variable of field to use: the first of its two that is not blank,
\* without the whitespace around it; Null when both are blank.
FirstNonBlankEnv(field) ==
    LET first  == IF field = "authToken" THEN cr_in.env.AUTH_TOKEN ELSE cr_in.env.CT0
        second == IF field = "authToken" THEN cr_in.env.TWITTER_AUTH_TOKEN ELSE cr_in.env.TWITTER_CT0
    IN  IF ~Blank(first) THEN Trim(first)
        ELSE IF ~Blank(second) THEN Trim(second)
        ELSE Null

\* The cookies returned are those of a browser cookie store.
SourceIsBrowser ==
    /\ cr_out.cookies.source \notin {Null, <<"CLI argument">>}
    /\ Head(cr_out.cookies.source) # "env "

\* C16: for a token the CLI does not supply, the environment value used is
\* the first non-blank one of AUTH_TOKEN, TWITTER_AUTH_TOKEN (CT0,
\* TWITTER_CT0), trimmed; variables that are unset, empty or whitespace
\* only count as absent, so that with no browser cookie the token is null.
C16_EnvNormalized ==
    cr_pc = "done" =>
        \A field \in {"authToken", "ct0"} :
            ~CliSupplies(field) =>
                /\ (FirstNonBlankEnv(field) # Null /\ ~(cr_in.version = "browsers" /\ SourceIsBrowser)) =>
                      cr_out.cookies[field] = FirstNonBlankEnv(field)
                /\ (FirstNonBlankEnv(field) = Null /\ cr_in.stores = NoStores /\ ~cr_in.db.exists) =>
                      cr_out.cookies[field] = Null

\* AUTH_TOKEN is whitespace only and TWITTER_AUTH_TOKEN is used, and CT0 is
\* used without the whitespace around it.
C16_Witness ==
    /\ cr_pc = "done"
    /\ cr_in.env.AUTH_TOKEN = <<" ">>
    /\ cr_in.env.CT0 = <<"envC", " ">>
    /\ ~CliSupplies("authToken") /\ ~CliSupplies("ct0")
    /\ cr_out.cookies.authToken = <<"envA2">>
    /\ cr_out.cookies.ct0 = <<"envC">>

(***************************************************************************)
(* Claims about the aiOnly filter                                          *)
(***************************************************************************)
\* The number of pieces the spaces of a headline cut it into.
SpacePieces(headline) == Cardinality({i \in 1..Len(headline) : headline[i] = " "}) + 1

\* The entry is AI news: marked is_ai_trend, or a headline of at least 5
\* pieces with a social-context text containing 'News' or 'hours ago'.
EntryIsAiNews(item) ==
    \/ item.entry.is_ai_trend
    \/ /\ SpacePieces(item.headline) >= 5
       /\ item.entry.social # Null
       /\ \/ Includes(item.entry.social, <<"News">>)
          \/ Includes(item.entry.social, <<"hours", " ", "ago">>)

\* C17: with aiOnly set, every item collected and every item returned was
\* made of an entry that is AI news.
C17_AiOnly ==
    nw_in.options.aiOnly =>
        /\ \A i \in 1..Len(nw_allItems) : EntryIsAiNews(nw_allItems[i])
        /\ \A i \in 1..Len(nw_out.items) : EntryIsAiNews(nw_out.items[i])

\* An item that is AI news by its headline and social context is returned
\* next to one marked is_ai_trend.
C17_Witness ==
    /\ nw_pc = "done"
    /\ nw_in.options.aiOnly
    /\ nw_out.success
    /\ \E i \in 1..Len(nw_out.items) : ~nw_out.items[i].entry.is_ai_trend
    /\ \E i \in 1..Len(nw_out.items) : nw_out.items[i].entry.is_ai_trend

(***************************************************************************)
(* C18: the package version                                                *)
(***************************************************************************)
\* The environment's version as it was injected, before trimming
InjectedRaw ==
    IF vr_in.env.OWLET_VERSION # Null THEN vr_in.env.OWLET_VERSION ELSE vr_in.env.BIRD_VERSION

\* The directories within 10 levels of the start directory, itself included
WalkedDirs == {d \in 0..vr_in.start : vr_in.start - d < 10}

PackageHasVersion(d) ==
    LET package == vr_in.fs[d].package
    IN  package.kind = "object" /\ package.versionType = "string" /\ ~Blank(package.version)

DirHasVersion(d) == PackageHasVersion(d) \/ ~Blank(vr_in.fs[d].VERSION)

OwnVersion(d) ==
    IF PackageHasVersion(d) THEN Trim(vr_in.fs[d].package.version) ELSE Trim(vr_in.fs[d].VERSION)

ExpectedVersion ==
    IF ~Blank(InjectedRaw) THEN Trim(InjectedRaw)
    ELSE IF \E d \in WalkedDirs : DirHasVersion(d)
         THEN OwnVersion(SetMax({d \in WalkedDirs : DirHasVersion(d)}))
         ELSE <<"unknown">>

\* C18: resolvePackageVersion returns the trimmed injected version when it is
\* not blank; otherwise the version of the nearest directory, among the start
\* directory and its ancestors up to 10 levels, that has one, package.json's
\* non-blank version string winning over the VERSION file; otherwise
\* 'unknown'.  The walk climbs one directory per iteration, never runs more
\* than 10 iterations, and the call always returns.
C18_VersionPrecedence ==
    /\ [](vr_pc = "done" => vr_out = ExpectedVersion)
    /\ [](vr_pc = "walking" => vr_i <= 10 /\ vr_dir = vr_in.start - vr_i)
    /\ <>(vr_pc = "done")

\* Reached: no injected version, the start directory has none, an ancestor
\* has both files and a farther ancestor has a package.json version too
C18_Witness ==
    /\ vr_pc = "done"
    /\ Blank(InjectedRaw)
    /\ vr_i >= 1
    /\ PackageHasVersion(vr_dir) /\ ~Blank(vr_in.fs[vr_dir].VERSION)
    /\ \E d \in WalkedDirs : d < vr_dir /\ DirHasVersion(d)
    /\ vr_out = <<"1.2.3">>

(***************************************************************************)
(* C19: the tweet id of a reply target                                     *)
(***************************************************************************)
IsDigits(chunk) == chunk \in {"1234567890", "42"}

IsWord(chunk) == IsDigits(chunk) \/ chunk \in {"user", "status", "statuses", "i", "web"}

\* input holds <host>/<user>/status/<digit> from position i on, <user> being
\* n chunks long
StatusUrlAt(input, i, n) ==
    /\ n >= 1
    /\ i + n + 5 <= Len(input)
    /\ input[i] \in {"twitter.com", "x.com"}
    /\ input[i + 1] = "/"
    /\ \A k \in (i + 2)..(i + n + 1) : IsWord(input[k])
    /\ SubSeq(input, i + n + 2, i + n + 4) = <<"/", "status", "/">>
    /\ IsDigits(input[i + n + 5])

HasStatusUrl(input) == \E i \in 1..Len(input), n \in 1..Len(input) : StatusUrlAt(input, i, n)

\* id is the whole run of digits that follows /status/ in the first status
\* URL of input
IsIdOf(id, input) ==
    /\ id # <<>>
    /\ \A k \in 1..Len(id) : IsDigits(id[k])
    /\ \E i \in 1..Len(input), n \in 1..Len(input) :
          /\ StatusUrlAt(input, i, n)
          /\ \A j \in 1..(i - 1), m \in 1..Len(input) : ~StatusUrlAt(input, j, m)
          /\ SubSeq(input, i + n + 5, i + n + 4 + Len(id)) = id
          /\ i + n + 5 + Len(id) <= Len(input) => ~IsDigits(input[i + n + 5 + Len(id)])

\* C19: for an input that contains twitter.com/<user>/status/<digits> or
\* x.com/<user>/status/<digits>, extractTweetId returns the digit run after
\* /status/ and nothing of what follows it; any other input is returned
\* unchanged; and applied to its own result it returns that result.
C19_ExtractTweetId ==
    /\ xt_pc \in {"once", "twice"} =>
          IF HasStatusUrl(xt_in) THEN IsIdOf(xt_out[1], xt_in) ELSE xt_out[1] = xt_in
    /\ xt_pc = "twice" => xt_out[2] = xt_out[1]

\* Reached: a status URL with query parameters gave its id, and the id gave
\* itself
C19_Witness ==
    /\ xt_pc = "twice"
    /\ xt_in # <<>> /\ xt_in[Len(xt_in)] = "?s=20"
    /\ HasStatusUrl(xt_in)
    /\ xt_out = <<<<"42">>, <<"42">>>>

(***************************************************************************)
(* C20: which browser cookie stores a resolution reads                     *)
(***************************************************************************)
\* The CLI arguments and the environment together supply the field
SuppliedWithoutBrowser(field) == CliSupplies(field) \/ FirstNonBlankEnv(field) # Null

\* The browsers of the call in the order the options configure
ConfiguredOrder ==
    LET cookieSource == cr_in.options.cookieSource
    IN  IF cookieSource.tag = "array" THEN cookieSource.arr
        ELSE IF cookieSource.tag = "one" THEN <<cookieSource.one>>
        ELSE <<"safari", "chrome", "firefox">>

\* The browser's store holds an auth_token and a ct0 cookie
YieldsBoth(source) ==
    LET cookies == cr_in.stores[source].cookies
    IN  /\ \E i \in 1..Len(cookies) : cookies[i].name = "auth_token" /\ Truthy(cookies[i].value)
        /\ \E i \in 1..Len(cookies) : cookies[i].name = "ct0" /\ Truthy(cookies[i].value)

\* C20: when the CLI arguments and the environment supply both tokens no
\* browser cookie store is read.  Otherwise resolveCredentials reads the
\* stores in the configured order (Safari, Chrome, Firefox by default), from
\* the first on, and the first store that yields both cookies is the last
\* one read; the Chrome-only resolver reads Chrome's store, once.
C20_BrowserOrder ==
    cr_pc = "done" =>
        LET queried == cr_out.queried
        IN  IF SuppliedWithoutBrowser("authToken") /\ SuppliedWithoutBrowser("ct0")
            THEN queried = <<>>
            ELSE IF cr_in.version = "chrome" THEN queried = <<"chrome">>
            ELSE /\ Len(queried) <= Len(ConfiguredOrder)
                 /\ queried = SubSeq(ConfiguredOrder, 1, Len(queried))
                 /\ \A i \in 1..(Len(queried) - 1) : ~YieldsBoth(queried[i])
                 /\ Len(queried) < Len(ConfiguredOrder) => YieldsBoth(queried[Len(queried)])

\* Reached: a token is missing, Safari is read first and yields nothing,
\* Chrome yields both cookies and Firefox, which has both too, is not read
C20_Witness ==
    /\ cr_pc = "done"
    /\ cr_in.version = "browsers"
    /\ ~SuppliedWithoutBrowser("authToken")
    /\ cr_out.queried = <<"safari", "chrome">>
    /\ YieldsBoth("chrome") /\ YieldsBoth("firefox")

(***************************************************************************)
(* C21: the order of the tabs and of the returned items                    *)
(***************************************************************************)
RECURSIVE ItemsOfTabs(_, _)
\* The items the tabs of the log delivered, tab after tab, from entry k on
ItemsOfTabs(log, k) ==
    IF k > Len(log) THEN <<>> ELSE log[k].items \o ItemsOfTabs(log, k + 1)

\* The items whose headline no earlier item of the sequence has
FirstOccurrences(items) ==
    LET first == {k \in 1..Len(items) : \A j \in 1..(k - 1) : items[j].headline # items[k].headline}
        F[k \in 0..Len(items)] ==
            IF k = 0 THEN <<>> ELSE IF k \in first THEN Append(F[k - 1], items[k]) ELSE F[k - 1]
    IN  F[Len(items)]

EntriesOf(items) == [k \in 1..Len(items) |-> items[k].entry]

UniqueHeadlines == {nw_allItems[k].headline : k \in 1..Len(nw_allItems)}

\* The items getNews returns are the first count of the tabs' items in tab
\* order then in-tab order, each repeated headline kept at its first
\* occurrence only
ReturnedInOrder ==
    (nw_pc = "done" /\ nw_out.success) =>
        LET kept == FirstOccurrences(ItemsOfTabs(nw_log, 1))
        IN  /\ Len(nw_out.items) = IF Len(kept) < nw_in.count THEN Len(kept) ELSE nw_in.count
            /\ EntriesOf(nw_out.items) = EntriesOf(SubSeq(kept, 1, Len(nw_out.items)))

\* The tabs are taken in the order given
TabsInOrder ==
    nw_pc # "idle" => [k \in 1..Len(nw_log) |-> nw_log[k].tab] = SubSeq(NewsTabs, 1, Len(nw_log))

\* The outcome of the last tab that was requested
LastFetched ==
    LET fetched == SelectSeq(nw_log, LAMBDA e : e.kind # "skipped")
    IN  fetched[Len(fetched)].kind

RequestFailed(slot) == CallStarted(ed_calls, slot) /\ ~ed_in.results[slot].success

SectionOf(edition, slot) ==
    IF slot = "trending" THEN edition.trends
    ELSE IF slot = "topic" THEN edition.topic
    ELSE IF slot = "hiring" THEN edition.hiring
    ELSE edition.seeking

\* C22: buildEdition answers ok:false exactly when a credential is missing
\* (error: the missing-credentials message) or the main news request is
\* unsuccessful (error: the news error).  Otherwise it answers ok:true with
\* the news, and an unsuccessful topic, hiring, seeking or trending request
\* leaves its own section empty and no other section changed.
C22_WholeFailure ==
    ed_pc = "done" =>
        /\ ~ed_out.ok <=> (EditionCredentialMissing \/ ~ed_in.results.news.success)
        /\ ~ed_out.ok =>
              /\ ed_out.edition = Null
              /\ ed_out.error = IF EditionCredentialMissing
                                THEN <<"Missing required credentials. Provide auth_token/ct0 or login to x.com in a supported browser.">>
                                ELSE ed_in.results.news.error
        /\ ed_out.ok =>
              /\ ed_out.edition.news = ed_in.results.news.items
              /\ \A slot \in {"topic", "hiring", "seeking", "trending"} :
                    SectionOf(ed_out.edition, slot) =
                        IF RequestFailed(slot) \/ ~CallStarted(ed_calls, slot)
                        THEN <<>> ELSE ed_in.results[slot].items

\* Reached: the topic and seeking searches and the trend wire failed, the
\* hiring search did not, and the edition came back with the news
C22_Witness ==
    /\ ed_pc = "done"
    /\ ed_out.ok
    /\ RequestFailed("topic") /\ RequestFailed("seeking") /\ RequestFailed("trending")
    /\ ed_out.edition.news # <<>>
    /\ ed_out.edition.hiring # <<>>
    /\ ed_out.edition.topic = <<>> /\ ed_out.edition.seeking = <<>> /\ ed_out.edition.trends = <<>>

(***************************************************************************)
(* C23: the counts buildEdition passes to the client                       *)
(***************************************************************************)
CallOf(slot) == ed_calls[CHOOSE i \in 1..Len(ed_calls) : ed_calls[i].slot = slot]

\* C23: whatever the payload holds for its counts, the main news request is
\* made with a count in 4..40 and tweetsPerItem in 1..6, the topic search
\* with a count in 4..40, the hiring and seeking searches with a count in
\* 3..30, all of them integers, and the trending request with the smaller
\* of 12 and the count of the main news request.
C23_CountsInRange ==
    ed_calls # <<>> =>
        /\ CallOf("news").count \in 4..40
        /\ CallOf("news").tweetsPerItem \in 1..6
        /\ CallStarted(ed_calls, "topic") => CallOf("topic").count \in 4..40
        /\ CallStarted(ed_calls, "hiring") => CallOf("hiring").count \in 3..30
        /\ CallStarted(ed_calls, "seeking") => CallOf("seeking").count \in 3..30
        /\ CallStarted(ed_calls, "trending") =>
              CallOf("trending").count = IF CallOf("news").count > 12 THEN 12 ELSE CallOf("news").count

\* Reached: a news count of 1000, a tweetsPerItem of -0.5 and desk counts of
\* 4.5 became 40, 1, 4 and 4, and the trending request asks for 12
C23_Witness ==
    /\ ed_pc = "done"
    /\ ed_in.payload.news.count = Num(1000)
    /\ ed_in.payload.news.tweetsPerItem = AndAHalf(-1)
    /\ ed_in.payload.topic.count = AndAHalf(4)
    /\ Len(ed_calls) = 5
    /\ CallOf("news").count = 40 /\ CallOf("news").tweetsPerItem = 1
    /\ CallOf("topic").count = 4 /\ CallOf("hiring").count = 4
    /\ CallOf("trending").count = 12

(***************************************************************************)
(* C24: static files come from the public directory only                   *)
(***************************************************************************)
\* The path is the public directory or lies below it
InsidePublicDir(path) ==
    path = <<"/", "srv", "/", "public">> \/ StartsWith(path, <<"/", "srv", "/", "public", "/">>)

\* C24: every file the server streams lies inside the public directory, and
\* a GET whose path resolves outside of it is answered 403 and nothing
\* else.
C24_InsidePublicDir ==
    /\ \A i \in 1..Len(sv_responses) :
          sv_responses[i].type = "file" => InsidePublicDir(sv_responses[i].text)
    /\ (/\ sv_pc = "done"
        /\ sv_req.method = "GET"
        /\ ~UrlThrows(sv_req.url)
        /\ ~DecodeThrows(UrlPathname(sv_req.url))
        /\ ~InsidePublicDir(StaticFilePath(sv_req.url)))
       => (Len(sv_responses) = 1 /\ sv_responses[1].status = 403)

(***************************************************************************)
(* Claims about the feature overrides                                      *)
(***************************************************************************)
FeatureScopes == {"global"} \cup {"s"}

\* The boolean a JSON value gives a key in a scope, "absent" when it gives
\* none (the value, the scope's object or the entry is missing or of
\* another type)
RawValueAt(raw, scope, key) ==
    IF ~raw.object THEN "absent"
    ELSE LET holder == IF scope = "global" THEN raw.global
                       ELSE IF raw.sets.object THEN raw.sets.maps[scope]
                       ELSE [object |-> FALSE, map |-> [k \in {"a", "b"} |-> "absent"]]
         IN  IF holder.object /\ holder.map[key] \in {"true", "false"} THEN holder.map[key] ELSE "absent"

\* The boolean a source (the cache file, the environment JSON) gives
SourceValueAt(source, scope, key) ==
    IF source.kind = "json" THEN RawValueAt(source.value, scope, key) ELSE "absent"

FirstDefined(values) ==
    IF \E i \in 1..Len(values) : values[i] # "absent"
    THEN values[CHOOSE i \in 1..Len(values) :
                    values[i] # "absent" /\ \A j \in 1..(i - 1) : values[j] = "absent"]
    ELSE "absent"

\* bundled defaults < cache file < environment JSON
LayerValue(scope, key, file, env) ==
    FirstDefined(<<SourceValueAt(env, scope, key), SourceValueAt(file, scope, key),
                   RawValueAt(ft_bundled, scope, key)>>)

OverridesValueAt(overrides, scope, key) ==
    IF scope = "global" THEN overrides.global[key]
    ELSE IF scope \in DOMAIN overrides.sets THEN overrides.sets[scope][key] ELSE "absent"

LoadingOps == {"load", "snapshot", "apply"}

\* C25: applyFeatureOverrides returns for every key the value of the
\* highest layer that defines it, base < global overrides < overrides of the
\* named set, and the base map itself when the overrides in effect define
\* nothing for the call; and the overrides a load reads have for every key
\* the value of the highest of bundled defaults < cache file < environment
\* JSON that defines it.
C25_LayeredOverrides ==
    /\ [](ft_last.op = "apply" =>
            /\ \A key \in {"a", "b"} :
                  ft_last.map[key] =
                      FirstDefined(<<OverridesValueAt(ft_last.overrides, ft_last.setName, key),
                                     OverridesValueAt(ft_last.overrides, "global", key),
                                     ft_last.base[key]>>)
            /\ (\A key \in {"a", "b"} :
                   /\ OverridesValueAt(ft_last.overrides, ft_last.setName, key) = "absent"
                   /\ OverridesValueAt(ft_last.overrides, "global", key) = "absent")
               => ft_last.same /\ ft_last.map = ft_last.base)
    /\ [][(ft_memo.isNull /\ ft_last' # ft_last /\ ft_last'.op \in LoadingOps) =>
            \A scope \in FeatureScopes, key \in {"a", "b"} :
                OverridesValueAt(ft_last'.overrides, scope, key) = LayerValue(scope, key, ft_file, ft_env)]_vars

\* Reached: base, the global overrides and the set's overrides all define
\* key a, the set's value is returned for it, and key b comes from the
\* environment JSON over the cache file and the bundled defaults
C25_Witness ==
    /\ ft_last.op = "apply"
    /\ ft_last.setName = "s"
    /\ ft_last.base["a"] = "true"
    /\ OverridesValueAt(ft_last.overrides, "global", "a") = "true"
    /\ OverridesValueAt(ft_last.overrides, "s", "a") = "false"
    /\ ft_last.map["a"] = "false"
    /\ ft_last.overrides = ft_memo.overrides
    /\ SourceValueAt(ft_env, "s", "b") = "false"
    /\ SourceValueAt(ft_file, "s", "b") = "true"
    /\ ft_last.map["b"] = "false"

\* C26: a load, a snapshot or an apply that follows a load returns the
\* overrides of that load, whatever has become of the cache file and of the
\* environment since, until clearFeatureOverridesCache is called or
\* refreshFeatureOverridesCache returns; the first such call after that
\* reads the file and the environment as they are then.
C26_Memoized ==
    [][(ft_last' # ft_last /\ ft_last'.op \in LoadingOps) =>
          /\ ft_last'.overrides =
                IF ft_memo.isNull
                THEN [global |-> [key \in {"a", "b"} |-> LayerValue("global", key, ft_file, ft_env)],
                      sets   |-> [n \in {"s"} |-> [key \in {"a", "b"} |->
                                                      LayerValue(n, key, ft_file, ft_env)]]]
                ELSE ft_memo.overrides
          /\ ft_last'.op = "snapshot" =>
                \A scope \in FeatureScopes, key \in {"a", "b"} :
                    RawValueAt(ft_last'.snapshot, scope, key) =
                        OverridesValueAt(ft_last'.overrides, scope, key)]_vars

\* Reached: a load returned the memoized overrides although the cache file
\* and the environment now give key a another value
C26_Witness ==
    /\ ft_last.op = "load"
    /\ ~ft_memo.isNull
    /\ ft_last.overrides = ft_memo.overrides
    /\ ft_last.overrides.global["a"] = "true"
    /\ LayerValue("global", "a", ft_file, ft_env) = "false"

\* What a refresh writes for a key: the file's boolean, else the bundled one
RefreshValue(scope, key, file) ==
    FirstDefined(<<SourceValueAt(file, scope, key), RawValueAt(ft_bundled, scope, key)>>)

OnlyBooleans(raw) ==
    /\ raw.global.object => \A key \in {"a", "b"} : raw.global.map[key] \in {"true", "false", "absent"}
    /\ \A n \in {"s"} : raw.sets.maps[n].object =>
          \A key \in {"a", "b"} : raw.sets.maps[n].map[key] \in {"true", "false", "absent"}

\* C27: a refresh that writes leaves in the cache file, for every key of
\* every scope, the boolean the file held for it before and, where it held
\* none, the bundled default, and nothing else: no value of the environment
\* JSON.  So a boolean of the file survives, and the file a refresh has
\* written is the file a refresh of it writes.
C27_RefreshWrites ==
    /\ [][(ft_last' # ft_last /\ ft_last'.op = "refresh" /\ ~ft_last'.threw) =>
            /\ ft_file'.kind = "json"
            /\ OnlyBooleans(ft_file'.value)
            /\ \A scope \in FeatureScopes, key \in {"a", "b"} :
                  /\ SourceValueAt(ft_file', scope, key) = RefreshValue(scope, key, ft_file)
                  /\ SourceValueAt(ft_file, scope, key) # "absent" =>
                        SourceValueAt(ft_file', scope, key) = SourceValueAt(ft_file, scope, key)
                  /\ RawValueAt(ft_last'.snapshot, scope, key) = SourceValueAt(ft_file', scope, key)]_vars
    /\ []((ft_last.op = "refresh" /\ ~ft_last.threw) =>
            /\ ft_file.kind = "json"
            /\ \A scope \in FeatureScopes, key \in {"a", "b"} :
                  SourceValueAt(ft_file, scope, key) = RefreshValue(scope, key, ft_file))

\* Reached: the refresh kept the file's false for key a over the bundled
\* true, added the bundled b, and took nothing of the environment, which
\* alone gives key b of the set a value
C27_Witness ==
    /\ ft_last.op = "refresh" /\ ~ft_last.threw
    /\ RawValueAt(ft_bundled, "global", "a") = "true"
    /\ RawValueAt(ft_bundled, "global", "b") = "true"
    /\ SourceValueAt(ft_file, "global", "a") = "false"
    /\ SourceValueAt(ft_file, "global", "b") = "true"
    /\ SourceValueAt(ft_env, "s", "b") = "false"
    /\ SourceValueAt(ft_file, "s", "b") = "absent"

(***************************************************************************)
(* Claims about the tabs of an edition                                     *)
(***************************************************************************)
TabsOfCall(slot) ==
    UNION {Range(ed_calls[i].tabs) : i \in {j \in 1..Len(ed_calls) : ed_calls[j].slot = slot}}

\* C28: of the main news call and the trend-wire call of an edition build
\* at most one asks for the trending tab, and the main news call is given a
\* tab list that is not empty and names known tabs only.
C28_TrendingOnce ==
    ed_calls # <<>> =>
        /\ ~("trending" \in TabsOfCall("news") /\ "trending" \in TabsOfCall("trending"))
        /\ \A i \in 1..Len(ed_calls) :
              ed_calls[i].slot = "news" =>
                  /\ ed_calls[i].call = "getNews"
                  /\ ed_calls[i].tabs # <<>>
                  /\ Range(ed_calls[i].tabs) \subseteq {"forYou", "news", "sports", "entertainment", "trending"}
        /\ \E i \in 1..Len(ed_calls) : ed_calls[i].slot = "news"

\* Reached: a payload naming trending alone with the trending switch on;
\* the main news call asks for trending and no trend-wire call is made
C28_Witness ==
    /\ ed_calls # <<>>
    /\ ed_in.payload.news.tabs = <<"trending">>
    /\ ed_in.payload.news.includeTrending = "true"
    /\ TabsOfCall("news") = {"trending"}
    /\ TabsOfCall("trending") = {}
    /\ ed_pc = "done"

(***************************************************************************)
(* Claims about the cookie header                                          *)
(***************************************************************************)
\* cookieHeader is set exactly when both tokens are, and is then the header
\* made of these two tokens
HeaderMatchesTokens(cookies) ==
    /\ cookies.cookieHeader # Null <=> (cookies.authToken # Null /\ cookies.ct0 # Null)
    /\ cookies.cookieHeader # Null =>
          cookies.cookieHeader = <<"auth_token=">> \o cookies.authToken \o <<"; ct0=">> \o cookies.ct0

\* What the extractor of a browser returns on the call's stores and profiles
ExtractorResult(source) ==
    readTwitterCookiesFromBrowser(source, cr_in.stores[source],
                                  cr_in.options.chromeProfile, cr_in.options.firefoxProfile)

\* C29: in every result of resolveCredentials and of the extractor of each
\* browser, cookieHeader is non-null exactly when authToken and ct0 are both
\* non-null, and is then "auth_token=<authToken>; ct0=<ct0>" of the tokens of
\* the same result.
C29_CookieHeader ==
    /\ (cr_pc = "done" /\ cr_in.version = "browsers") => HeaderMatchesTokens(cr_out.cookies)
    /\ cr_in.version = "browsers" =>
          \A source \in {"safari", "chrome", "firefox"} : HeaderMatchesTokens(ExtractorResult(source).cookies)

\* Reached: the result's tokens are those of a browser, not the auth token
\* the command line gave, and so is the header; another browser's extractor
\* returned one token and no header
C29_Witness ==
    /\ cr_pc = "done"
    /\ cr_in.version = "browsers"
    /\ cr_out.queried # <<>>
    /\ cr_out.cookies.cookieHeader # Null
    /\ cr_in.options.authToken # Null
    /\ cr_out.cookies.authToken # cr_in.options.authToken
    /\ cr_out.cookies.authToken # cr_out.cookies.ct0
    /\ \E source \in {"safari", "chrome", "firefox"} :
          /\ ExtractorResult(source).cookies.cookieHeader = Null
          /\ (ExtractorResult(source).cookies.authToken # Null
              \/ ExtractorResult(source).cookies.ct0 # Null)

====
